---- MODULE Spec2Model ----
(***************************************************************************)
(* Hotel booking / storefront backend: the cart store (AddToCart,          *)
(* RemoveFromCart, ClearCart), the checkout transaction (CreateOrder) and   *)
(* the administrative status change (UpdateOrderStatus), over the tables of *)
(* 001_initial_schema.sql.  The database is PostgreSQL at its default       *)
(* isolation level (read committed): every statement sees the rows          *)
(* committed when it starts plus the writes of its own transaction; rows a  *)
(* running transaction has deleted stay visible to, and locked against,     *)
(* everyone else until it commits or rolls back.                            *)
(*                                                                         *)
(* Amounts are exact numbers of cents.  A DATE is a day number: day 1 is    *)
(* 2025-06-01, day 4 is 2025-06-04.  An optional value (a NULL column, an   *)
(* empty request field, a nil pointer) is the empty sequence, a present one *)
(* a one-element sequence.                                                  *)
(***************************************************************************)
EXTENDS Integers, Sequences, FiniteSets, TLC

VARIABLES
    cart_items,     \* committed rows of table cart_items
    orders,         \* committed rows of table orders
    order_items,    \* committed rows of table order_items
    room_bookings,  \* committed rows of table room_bookings
    seq,            \* last value handed out by each SERIAL sequence
    now,            \* time.Now().Unix()
    proc,           \* per request in flight: position in its handler and its locals
    resp,           \* the last HTTP response written
    notified,       \* order ids for which sendOrderNotifications was started
    dateLayout,     \* text layout in which the driver hands a DATE to Scan
    zone,           \* offset of the server's time.Local from UTC, in seconds
    mail,           \* per order id: how far its sendOrderNotifications has come
    otps,           \* rows of table otps
    users,          \* rows of table users
    logins,         \* the "Login successful" answers given so far, with the OTP used
    rooms,          \* rows of table rooms
    products,       \* rows of table products
    clearing        \* DELETE statements of ClearCart waiting for a row lock

vars == <<cart_items, orders, order_items, room_bookings, seq, now, proc, resp,
          notified, dateLayout, zone, mail, otps, users, logins, rooms, products, clearing>>

(***************************************************************************)
(* Bounds of the model.                                                     *)
(***************************************************************************)
MaxCartId == 2
MaxOrderId == 2
MaxQty == 2
MaxClock == 1
\* requests of ClearCart that wait for a row lock at one time
MaxClearing == 1
MaxRoomId == 7
MaxProductId == 6

Procs == {"r1", "r2"}
Users == {1, 2}
Quantities == {1, 2}
\* quantities the request binding lets through besides those: any non-zero int
SignedQuantities == {0 - 1, 1}
\* (mutation of OrderStatuses: one more status in validStatuses)
OrderStatusesAndRefunded == {"pending", "confirmed", "cancelled", "completed", "refunded"}
OrderStatuses == {"pending", "confirmed", "cancelled", "completed"}
BadOrderStatuses == {"refunded"}
ItemTypes == {"room", "product"}
BadItemTypes == {"spa"}
ItemIds == {1}
MissingItemIds == {9}
\* time.Local of the server: UTC-5, UTC, UTC+7
ZoneOffsets == {0 - 18000, 0, 25200}

Null == <<>>
Some(v) == <<v>>
IsNull(o) == o = <<>>
Val(o) == o[1]

\* The stay ranges a request may carry: none, 3 nights, inverted, open-ended.
Stays == { <<Null, Null>>, <<Some(1), Some(4)>>, <<Some(4), Some(1)>>,
           <<Some(1), Null>> }

\* What a customer puts into the cart: an item and a stay range.
Selection(item_type, item_id, stay) ==
    [item_type |-> item_type, item_id |-> item_id, stay |-> stay]
\* The cart requests of the checkout specifications: customer and selection.
Visits ==
    { <<1, Selection("room", 1, <<Some(1), Some(4)>>)>>,
      <<1, Selection("product", 1, <<Null, Null>>)>>,
      <<2, Selection("room", 1, <<Some(1), Null>>)>> }
TxVisits ==
    { <<1, Selection("room", 1, <<Some(1), Some(4)>>)>>,
      <<1, Selection("product", 1, <<Null, Null>>)>>,
      <<2, Selection("product", 1, <<Null, Null>>)>> }
Selections == { Selection(t, i, s) : t \in ItemTypes, i \in ItemIds, s \in Stays }
\* selections of something that is not on offer
RefusedSelections ==
    ({ Selection(t, i, <<Null, Null>>) :
        t \in ItemTypes \cup BadItemTypes,
        i \in ItemIds \cup MissingItemIds } \ Selections)
\* a room and a product of the sample catalog that InitRetired takes off the
\* offer
RetiredItems == {<<"room", 3>>, <<"product", 5>>}
\* selections of the room and the product that InitRetired takes off the offer
RetiredSelections ==
    { Selection(x[1], x[2], <<Null, Null>>) : x \in RetiredItems }

(***************************************************************************)
(* Catalog.  The migration inserts the sample rows; AddRoom and AddProduct  *)
(* insert further ones.  is_available and is_active take their column       *)
(* default TRUE, and no handler changes a flag or a price or deletes a row; *)
(* a flag is FALSE only where the initial state says so.                    *)
(***************************************************************************)
\* INSERT INTO rooms ... the sample rooms 101, 201 and 301
SampleRooms ==
    { [id |-> 1, room_number |-> "101", price_per_night |-> 8999, is_available |-> TRUE],
      [id |-> 2, room_number |-> "201", price_per_night |-> 14999, is_available |-> TRUE],
      [id |-> 3, room_number |-> "301", price_per_night |-> 29999, is_available |-> TRUE] }

\* INSERT INTO products ... the five sample products
SampleProducts ==
    { [id |-> 1, price |-> 2499, is_active |-> TRUE],
      [id |-> 2, price |-> 1899, is_active |-> TRUE],
      [id |-> 3, price |-> 8999, is_active |-> TRUE],
      [id |-> 4, price |-> 1599, is_active |-> TRUE],
      [id |-> 5, price |-> 2999, is_active |-> TRUE] }

\* (mutation of ItemExists: is_available = true and is_active = true are left
\* out of the WHERE clauses)
ItemExistsWhateverFlag(item_type, item_id) ==
    IF item_type = "room"
    THEN \E r \in rooms : r.id = item_id
    ELSE \E p \in products : p.id = item_id

\* SELECT EXISTS(... rooms/products WHERE id = $1 AND is_available/is_active)
ItemExists(item_type, item_id) ==
    IF item_type = "room"
    THEN \E r \in rooms : r.id = item_id /\ r.is_available
    ELSE \E p \in products : p.id = item_id /\ p.is_active

\* CASE WHEN ci.item_type = 'room' THEN r.price_per_night
\*      WHEN ci.item_type = 'product' THEN p.price END over the LEFT JOINs
UnitPrice(item_type, item_id) ==
    IF item_type = "room"
    THEN (CHOOSE r \in rooms : r.id = item_id).price_per_night
    ELSE (CHOOSE p \in products : p.id = item_id).price

(***************************************************************************)
(* Dates as text.  rows.Scan into a sql.NullString yields the DATE in the   *)
(* layout the driver and database/sql produce: the plain "2006-01-02" text, *)
(* or, when the driver decodes DATE into a time.Time (lib/pq does),         *)
(* time.RFC3339Nano as in "2025-06-01T00:00:00Z".                           *)
(***************************************************************************)
DateLayouts == {"2006-01-02", "RFC3339Nano"}

ScanDate(col, layout) ==
    IF IsNull(col) THEN Null ELSE Some([layout |-> layout, day |-> Val(col)])

\* time.Parse("2006-01-02", s) with the error dropped: the day when s has
\* exactly that layout, the zero time.Time otherwise (extra text is an error).
\* The zero time is 0001-01-01, 739402 days before 2025-06-01.
ZeroTime == 0 - 739401
ParseDate(s) == IF s.layout = "2006-01-02" THEN s.day ELSE ZeroTime

\* int(x) of a float64 truncates toward zero.
TruncDiv(a, b) == IF a >= 0 THEN a \div b ELSE 0 - ((0 - a) \div b)

\* the whole hours of the largest time.Duration, 1<<63 - 1 nanoseconds
MaxDurationHours == 2562047

\* t.Sub(u) in hours, between two midnights: the difference, or the largest
\* or smallest Duration when the difference does not fit one
SubHours(t, u) ==
    LET hours == 24 * (t - u)
    IN  IF hours > MaxDurationHours THEN MaxDurationHours
        ELSE IF hours < 0 - MaxDurationHours THEN 0 - MaxDurationHours
        ELSE hours

\* nights := int(checkOut.Sub(checkIn).Hours() / 24); if nights < 1 { nights = 1 }
Nights(checkInText, checkOutText) ==
    LET hours == SubHours(ParseDate(checkOutText), ParseDate(checkInText))
        nights == TruncDiv(hours, 24)
    IN  IF nights < 1 THEN 1 ELSE nights

\* PostgreSQL date input: both layouts denote the same day.
DateIn(text) == IF IsNull(text) THEN Null ELSE Some(Val(text).day)

(***************************************************************************)
(* Rows, locks and small helpers.                                           *)
(***************************************************************************)
Idle == [pc |-> "idle"]

InTx(p) ==
    proc[p].pc \in {"co_cart", "co_number", "co_order", "co_order_wait", "co_item",
                    "co_booking", "co_clear", "co_clear_wait", "co_commit"}

\* the transaction of request p has inserted its order
HasOrder(p) ==
    proc[p].pc \in {"co_item", "co_booking", "co_clear", "co_clear_wait", "co_commit"}

\* request p has built its order number
HasNumber(p) == HasOrder(p) \/ proc[p].pc \in {"co_order", "co_order_wait"}

\* the order number of request p
NumberOf(p) == IF proc[p].pc = "co_order" THEN proc[p].order_number
               ELSE proc[p].order.order_number

\* CURRENT_TIMESTAMP of the transaction of request p: the time of its tx.Begin
BeganAt(p) == IF proc[p].pc \in {"co_cart", "co_number", "co_order"} THEN proc[p].created_at
              ELSE proc[p].order.created_at

\* the transactions begun are told apart by the order of their beginnings; a
\* transaction that ends without an order leaves its place in that order
\* unused, and no transaction begins beyond this place
MaxTimestamp == MaxOrderId + 1

\* CURRENT_TIMESTAMP of a transaction beginning now: later than that of every
\* stored order and of every transaction running.  Only the order of these
\* times is kept.
Timestamp ==
    LET taken == {o.created_at : o \in orders}
                    \cup {BeganAt(p) : p \in {q \in Procs : InTx(q)}}
    IN  IF taken = {} THEN 1
        ELSE 1 + (CHOOSE t \in taken : \A x \in taken : x <= t)

\* cart rows deleted by a transaction still running: locked, still visible
Locked(id) == \E p \in Procs : proc[p].pc = "co_commit" /\ id \in proc[p].deleted

UserLines(rows, u) == {r \in rows : r.user_id = u}

Response(handler, code, id) == [handler |-> handler, code |-> code, id |-> id]

\* SUM(total_price) over a set of rows
RECURSIVE SumTotalPrice(_)
SumTotalPrice(S) ==
    IF S = {} THEN 0
    ELSE LET x == CHOOSE y \in S : TRUE IN x.total_price + SumTotalPrice(S \ {x})

\* rows of a set in ascending id
RECURSIVE ById(_)
ById(S) ==
    IF S = {} THEN <<>>
    ELSE LET x == CHOOSE y \in S : \A z \in S : y.id <= z.id
         IN  <<x>> \o ById(S \ {x})

Range(s) == {s[i] : i \in 1..Len(s)}

\* INSERT INTO users ... the sample admin user
SampleAdmin ==
    [id |-> 1, phone_number |-> "+1234567890", name |-> "Admin User", is_admin |-> TRUE]

\* what the first login of the customer with phone number +1555000111 leaves:
\* the OTP sent to the number, used, and the users row VerifyOTP inserted
FirstLoginOtp ==
    [id |-> 1, phone_number |-> "+1555000111", otp_code |-> "000042",
     expires_at |-> 300, is_used |-> TRUE]
FirstLoginUser ==
    [id |-> 2, phone_number |-> "+1555000111", name |-> "User", is_admin |-> FALSE]

\* The database after the migration; with loggedIn, after the first login of
\* customer 2 as well (SendOTP, then VerifyOTP).  zones: the offsets of the
\* server's local time zone; retired: the rooms and products off the offer.
InitDb(layouts, loggedIn, zones, retired) ==
    /\ cart_items = {}
    /\ orders = {}
    /\ order_items = {}
    /\ room_bookings = {}
    /\ seq = [cart_items |-> 0, orders |-> 0, order_items |-> 0, room_bookings |-> 0,
              otps |-> IF loggedIn THEN 1 ELSE 0,
              users |-> IF loggedIn THEN 2 ELSE 1,
              rooms |-> 3, products |-> 5]
    /\ now = 0
    /\ proc = [p \in Procs |-> Idle]
    /\ resp = IF loggedIn THEN Response("VerifyOTP", 200, 2) ELSE Response("none", 0, 0)
    /\ notified = {}
    /\ dateLayout \in layouts
    /\ zone \in zones
    /\ mail = <<>>
    /\ otps = IF loggedIn THEN {FirstLoginOtp} ELSE {}
    /\ users = IF loggedIn THEN {SampleAdmin, FirstLoginUser} ELSE {SampleAdmin}
    /\ logins = IF loggedIn THEN <<[otp_id |-> 1, user_id |-> 2]>> ELSE <<>>
    /\ rooms = {[r EXCEPT !.is_available = <<"room", r.id>> \notin retired] :
                  r \in SampleRooms}
    /\ products = {[p EXCEPT !.is_active = <<"product", p.id>> \notin retired] :
                     p \in SampleProducts}
    /\ clearing = {}

\* customers 1 and 2 have their users rows, the server runs in UTC and every
\* room and product is on offer; the driver may hand out dates in either layout
Init == InitDb(DateLayouts, TRUE, {0}, {})

\* the same with the lib/pq driver: dates arrive as time.Time
InitPq == InitDb({"RFC3339Nano"}, TRUE, {0}, {})

\* right after the migration, with the lib/pq driver, in a server process
\* whose local time zone is west of UTC, UTC, or east of it
InitMigrated == InitDb({"RFC3339Nano"}, FALSE, ZoneOffsets, {})

\* the same as InitPq after the database's operator has taken room 3 and
\* product 5 off the offer (UPDATE ... SET is_available / is_active = false):
\* no handler writes the two flags, the EXISTS queries of AddToCart read them
InitRetired == InitDb({"RFC3339Nano"}, TRUE, {0}, RetiredItems)

\* A second passes.  Order numbers are all that read the clock, so only the
\* seconds in which an order number was taken are told apart.
Tick ==
    /\ now < MaxClock
    /\ \/ \E o \in orders : o.order_number[2] = now
       \/ \E p \in Procs : HasNumber(p) /\ NumberOf(p)[2] = now
    /\ now' = now + 1
    /\ UNCHANGED <<cart_items, orders, order_items, room_bookings, seq, proc, resp,
                   notified, dateLayout, zone, clearing, mail, otps, users, logins, rooms, products>>

(***************************************************************************)
(* Cart store.                                                              *)
(***************************************************************************)

Request(u, sel, quantity) ==
    [user_id |-> u, item_type |-> sel.item_type, item_id |-> sel.item_id,
     quantity |-> quantity, check_in_date |-> sel.stay[1],
     check_out_date |-> sel.stay[2]]

\* SELECT id FROM cart_items WHERE user_id = $1 AND item_type = $2 AND item_id = $3
\*   AND ($4::date IS NULL OR check_in_date = $4)
\*   AND ($5::date IS NULL OR check_out_date = $5)
CheckQuery(rows, request) ==
    { r \in rows :
        /\ r.user_id = request.user_id
        /\ r.item_type = request.item_type
        /\ r.item_id = request.item_id
        /\ (IsNull(request.check_in_date)
              \/ (~IsNull(r.check_in_date) /\ r.check_in_date = request.check_in_date))
        /\ (IsNull(request.check_out_date)
              \/ (~IsNull(r.check_out_date)
                    /\ r.check_out_date = request.check_out_date)) }

\* UNIQUE(user_id, item_type, item_id, check_in_date, check_out_date):
\* two rows conflict when all five columns are equal and none of them is NULL.
UniqueConflict(r, s) ==
    /\ r.user_id = s.user_id /\ r.item_type = s.item_type /\ r.item_id = s.item_id
    /\ ~IsNull(r.check_in_date) /\ r.check_in_date = s.check_in_date
    /\ ~IsNull(r.check_out_date) /\ r.check_out_date = s.check_out_date

\* INSERT INTO cart_items (...) VALUES (...) RETURNING id, and the 201 or 500 answer;
\* the insert fails on user_id REFERENCES users(id) and on the UNIQUE constraint
InsertCartItem(rows, customers, lastID, request) ==
    LET row == [id |-> lastID + 1] @@ request
    IN  IF \/ \A c \in customers : c.id # request.user_id
           \/ \E r \in rows : UniqueConflict(r, row)
        THEN [cart_items |-> rows, resp |-> Response("AddToCart", 500, 0)]
        ELSE [cart_items |-> rows \cup {row}, resp |-> Response("AddToCart", 201, lastID + 1)]

\* UPDATE cart_items SET quantity = quantity + $1 WHERE id = $2, and the 200 answer
UpdateCartItem(rows, existingID, request) ==
    [cart_items |-> { IF r.id = existingID
                      THEN [r EXCEPT !.quantity = r.quantity + request.quantity]
                      ELSE r : r \in rows },
     resp |-> Response("AddToCart", 200, existingID)]

\* the quantity the update would write stays within the model's range
QuantityInRange(rows, existingID, request) ==
    \A r \in rows : r.id = existingID =>
        /\ r.quantity + request.quantity <= MaxQty
        /\ r.quantity + request.quantity >= 0 - MaxQty

\* AddToCart through its first statement: ShouldBindJSON refuses a quantity of 0
\* (`binding:"required"`, the zero value) and nothing else about the quantity;
\* an item type other than room and product answers 400, an item the EXISTS
\* query does not find 404
AddToCartExists(p, u, sel, quantity) ==
    /\ proc[p] = Idle
    /\ IF quantity = 0 \/ sel.item_type \notin ItemTypes
       THEN /\ resp' = Response("AddToCart", 400, 0)
            /\ proc' = proc
       ELSE IF ~ItemExists(sel.item_type, sel.item_id)
       THEN /\ resp' = Response("AddToCart", 404, 0)
            /\ proc' = proc
       ELSE /\ resp' = resp
            /\ proc' = [proc EXCEPT ![p] =
                  [pc |-> "add_check", request |-> Request(u, sel, quantity)]]
    /\ UNCHANGED <<cart_items, orders, order_items, room_bookings, seq, now,
                   notified, dateLayout, zone, clearing, mail, otps, users, logins, rooms, products>>

\* the EXISTS query of AddToCart returns an error: err != nil answers 404 as
\* an item that is not found does
AddToCartExistsFail(p, u, sel, quantity) ==
    /\ proc[p] = Idle
    /\ quantity # 0
    /\ sel.item_type \in ItemTypes
    /\ resp' = Response("AddToCart", 404, 0)
    /\ UNCHANGED <<cart_items, orders, order_items, room_bookings, seq, now, proc,
                   notified, dateLayout, zone, clearing, mail, otps, users, logins, rooms, products>>

\* the check query of AddToCart; QueryRow keeps the first matching row
AddToCartCheck(p) ==
    /\ proc[p].pc = "add_check"
    /\ LET found == CheckQuery(cart_items, proc[p].request)
       IN  \/ /\ found = {}
              /\ proc' = [proc EXCEPT ![p] =
                    [pc |-> "add_insert", request |-> proc[p].request, existingID |-> 0]]
           \/ \E r \in found :
                 proc' = [proc EXCEPT ![p] =
                    [pc |-> "add_update", request |-> proc[p].request,
                     existingID |-> r.id]]
    /\ UNCHANGED <<cart_items, orders, order_items, room_bookings, seq, now, resp,
                   notified, dateLayout, zone, clearing, mail, otps, users, logins, rooms, products>>

\* the row the insert conflicts with is deleted by a transaction still running
InsertWaits(request) ==
    \E r \in cart_items : UniqueConflict(r, [id |-> 0] @@ request) /\ Locked(r.id)

\* the insert of AddToCart: it draws the id, then waits while a row it conflicts
\* with is locked
AddToCartInsert(p) ==
    /\ proc[p].pc = "add_insert"
    /\ seq.cart_items < MaxCartId
    /\ seq' = [seq EXCEPT !.cart_items = @ + 1]
    /\ IF InsertWaits(proc[p].request)
       THEN /\ proc' = [proc EXCEPT ![p] =
                  [pc |-> "add_insert_wait", request |-> proc[p].request,
                   lastID |-> seq.cart_items]]
            /\ UNCHANGED <<cart_items, resp>>
       ELSE /\ LET out == InsertCartItem(cart_items, users, seq.cart_items,
                                        proc[p].request)
               IN  /\ cart_items' = out.cart_items
                   /\ resp' = out.resp
            /\ proc' = [proc EXCEPT ![p] = Idle]
    /\ UNCHANGED <<orders, order_items, room_bookings, now, notified, dateLayout, zone, clearing, mail, otps, users, logins, rooms, products>>

\* the insert of AddToCart goes on, with the id it drew, once the transaction it
\* waited for has ended
AddToCartInsertResume(p) ==
    /\ proc[p].pc = "add_insert_wait"
    /\ ~InsertWaits(proc[p].request)
    /\ LET out == InsertCartItem(cart_items, users, proc[p].lastID, proc[p].request)
       IN  /\ cart_items' = out.cart_items
           /\ resp' = out.resp
    /\ proc' = [proc EXCEPT ![p] = Idle]
    /\ UNCHANGED <<orders, seq, order_items, room_bookings, now, notified, dateLayout, zone, clearing, mail, otps, users, logins, rooms, products>>

\* the update of AddToCart; it waits while the row is locked
AddToCartUpdate(p) ==
    /\ proc[p].pc = "add_update"
    /\ ~Locked(proc[p].existingID)
    /\ QuantityInRange(cart_items, proc[p].existingID, proc[p].request)
    /\ LET out == UpdateCartItem(cart_items, proc[p].existingID, proc[p].request)
       IN  /\ cart_items' = out.cart_items
           /\ resp' = out.resp
    /\ proc' = [proc EXCEPT ![p] = Idle]
    /\ UNCHANGED <<orders, order_items, room_bookings, seq, now, notified, dateLayout, zone, clearing, mail, otps, users, logins, rooms, products>>

\* the check query, the insert or the update returns an error
AddToCartFail(p) ==
    /\ proc[p].pc \in {"add_check", "add_insert", "add_insert_wait", "add_update"}
    /\ resp' = Response("AddToCart", 500, 0)
    /\ proc' = [proc EXCEPT ![p] = Idle]
    /\ UNCHANGED <<cart_items, orders, order_items, room_bookings, seq, now, notified,
                   dateLayout, zone, clearing, mail, otps, users, logins, rooms, products>>

\* (mutation of RemoveFromCart: DELETE FROM cart_items WHERE id = $1)
RemoveFromCartOfAnyone(u, cartItemID) ==
    /\ LET hit == {r \in cart_items : r.id = cartItemID}
       IN  /\ \A r \in hit : ~Locked(r.id)
           /\ cart_items' = cart_items \ hit
           /\ resp' = IF hit = {} THEN Response("RemoveFromCart", 404, 0) ELSE Response("RemoveFromCart", 200, 0)
    /\ UNCHANGED <<orders, order_items, room_bookings, seq, now, proc, notified,
                   dateLayout, zone, clearing, mail, otps, users, logins, rooms, products>>

\* DELETE FROM cart_items WHERE id = $1 AND user_id = $2 and the 200 or 404
\* answer; the statement waits while the row it matches is locked, and locks
\* nothing when no row matches
RemoveFromCart(u, cartItemID) ==
    /\ LET hit == {r \in cart_items : r.id = cartItemID /\ r.user_id = u}
       IN  /\ \A r \in hit : ~Locked(r.id)
           /\ cart_items' = cart_items \ hit
           /\ resp' = IF hit = {} THEN Response("RemoveFromCart", 404, 0) ELSE Response("RemoveFromCart", 200, 0)
    /\ UNCHANGED <<orders, order_items, room_bookings, seq, now, proc, notified,
                   dateLayout, zone, clearing, mail, otps, users, logins, rooms, products>>

\* the DELETE of RemoveFromCart returns an error
RemoveFromCartFail(u, cartItemID) ==
    /\ resp' = Response("RemoveFromCart", 500, 0)
    /\ UNCHANGED <<cart_items, orders, order_items, room_bookings, seq, now, proc,
                   notified, dateLayout, zone, clearing, mail, otps, users, logins, rooms, products>>

\* (mutation of ClearCart: DELETE FROM cart_items)
ClearCartOfEveryone(u) ==
    /\ \A r \in UserLines(cart_items, u) : ~Locked(r.id)
    /\ cart_items' = {}
    /\ resp' = Response("ClearCart", 200, 0)
    /\ UNCHANGED <<orders, order_items, room_bookings, seq, now, proc, notified,
                   dateLayout, zone, clearing, mail, otps, users, logins, rooms, products>>

\* DELETE FROM cart_items WHERE user_id = $1 that finds no row locked, and the
\* 200 answer
ClearCart(u) ==
    /\ \A r \in UserLines(cart_items, u) : ~Locked(r.id)
    /\ cart_items' = cart_items \ UserLines(cart_items, u)
    /\ resp' = Response("ClearCart", 200, 0)
    /\ UNCHANGED <<orders, order_items, room_bookings, seq, now, proc, notified,
                   dateLayout, zone, clearing, mail, otps, users, logins, rooms, products>>

\* the DELETE of ClearCart finds a row locked: it waits, and what it deletes
\* later are rows it saw when it started
ClearCartWait(u) ==
    /\ Cardinality(clearing) < MaxClearing
    /\ \E r \in UserLines(cart_items, u) : Locked(r.id)
    /\ clearing' = clearing \cup
          {[user_id |-> u, snapshot |-> {r.id : r \in UserLines(cart_items, u)}]}
    /\ UNCHANGED <<cart_items, orders, order_items, room_bookings, seq, now, proc,
                   resp, notified, dateLayout, zone, mail, otps, users, logins, rooms, products>>

\* the transactions a waiting DELETE of ClearCart waited for have ended: it
\* deletes the rows of its snapshot that are still there, and the 200 answer
ClearCartResume(c) ==
    /\ c \in clearing
    /\ \A id \in c.snapshot : ~Locked(id)
    /\ cart_items' = {r \in cart_items : r.id \notin c.snapshot}
    /\ clearing' = clearing \ {c}
    /\ resp' = Response("ClearCart", 200, 0)
    /\ UNCHANGED <<orders, order_items, room_bookings, seq, now, proc, notified,
                   dateLayout, zone, mail, otps, users, logins, rooms, products>>

\* the DELETE of ClearCart returns an error
ClearCartFail(u) ==
    /\ resp' = Response("ClearCart", 500, 0)
    /\ UNCHANGED <<cart_items, orders, order_items, room_bookings, seq, now, proc,
                   notified, dateLayout, zone, clearing, mail, otps, users, logins, rooms, products>>

(***************************************************************************)
(* Checkout: CreateOrder.                                                   *)
(***************************************************************************)

\* One iteration of the rows.Next() loop: scan a cart row and price it.
PriceItem(row, layout) ==
    LET checkInDate == ScanDate(row.check_in_date, layout)
        checkOutDate == ScanDate(row.check_out_date, layout)
        UnitPriceOf == UnitPrice(row.item_type, row.item_id)
        item == [ItemType |-> row.item_type, ItemID |-> row.item_id,
                 Quantity |-> row.quantity, UnitPrice |-> UnitPriceOf]
    IN  IF row.item_type = "room" /\ ~IsNull(checkInDate) /\ ~IsNull(checkOutDate)
        THEN LET nights == Nights(Val(checkInDate), Val(checkOutDate))
             IN  item @@ [Nights |-> Some(nights), CheckInDate |-> checkInDate,
                          CheckOutDate |-> checkOutDate,
                          TotalPrice |-> UnitPriceOf * nights * row.quantity]
        ELSE item @@ [Nights |-> Null, CheckInDate |-> Null, CheckOutDate |-> Null,
                      TotalPrice |-> UnitPriceOf * row.quantity]

\* the orders in which a query without ORDER BY may return the rows of S
Orderings(S) ==
    { f \in [1..Cardinality(S) -> S] : \A i, j \in 1..Cardinality(S) : f[i] = f[j] => i = j }

\* the rows.Next() loop of CreateOrder over the rows as the cart query returned them
ReadCart(lines, layout) == [i \in 1..Len(lines) |-> PriceItem(lines[i], layout)]

\* (mutation of TotalAmount: totalAmount = item.TotalPrice, the last item wins)
TotalAmountOfLastItem(orderItems) ==
    IF orderItems = <<>> THEN 0 ELSE orderItems[Len(orderItems)].TotalPrice

\* totalAmount += item.TotalPrice over the loop
RECURSIVE TotalAmount(_)
TotalAmount(orderItems) ==
    IF orderItems = <<>> THEN 0
    ELSE orderItems[1].TotalPrice + TotalAmount(Tail(orderItems))

\* (mutation of OrderNumber: fmt.Sprintf("ORD-%d", time.Now().Unix()))
OrderNumberOfSecond(unix, userID) == <<"ORD", unix, 0>>

\* fmt.Sprintf("ORD-%d-%d", time.Now().Unix(), userID); the text is kept as its
\* parts, the two numbers being told apart by the "-" between them
OrderNumber(unix, userID) == <<"ORD", unix, userID>>

IsBooked(item) ==
    item.ItemType = "room" /\ ~IsNull(item.CheckInDate) /\ ~IsNull(item.CheckOutDate)

\* the row of INSERT INTO order_items ... for one item of the loop
OrderItemRow(item, orderID, id) ==
    [id |-> id, order_id |-> orderID,
     item_type |-> item.ItemType, item_id |-> item.ItemID,
     quantity |-> item.Quantity, unit_price |-> item.UnitPrice,
     total_price |-> item.TotalPrice,
     check_in_date |-> DateIn(item.CheckInDate),
     check_out_date |-> DateIn(item.CheckOutDate),
     nights |-> item.Nights]

\* (mutation of RoomBookingRow: guest_count is not taken from the item)
RoomBookingRowOneGuest(item, orderID, id) ==
    [id |-> id, room_id |-> item.ItemID, order_id |-> orderID,
     check_in_date |-> DateIn(item.CheckInDate),
     check_out_date |-> DateIn(item.CheckOutDate),
     guest_count |-> 1, status |-> "confirmed"]

\* (mutation of RoomBookingRow: item.CheckInDate is passed for both dates)
RoomBookingRowCheckInTwice(item, orderID, id) ==
    [id |-> id, room_id |-> item.ItemID, order_id |-> orderID,
     check_in_date |-> DateIn(item.CheckInDate),
     check_out_date |-> DateIn(item.CheckInDate),
     guest_count |-> item.Quantity, status |-> "confirmed"]

\* the row of INSERT INTO room_bookings ... for a room item with both dates
\* (status takes the column default 'confirmed')
RoomBookingRow(item, orderID, id) ==
    [id |-> id, room_id |-> item.ItemID, order_id |-> orderID,
     check_in_date |-> DateIn(item.CheckInDate),
     check_out_date |-> DateIn(item.CheckOutDate),
     guest_count |-> item.Quantity, status |-> "confirmed"]

\* the row of INSERT INTO orders (status takes the column default 'pending',
\* created_at the column default CURRENT_TIMESTAMP)
OrderRow(orderID, userID, orderNumber, totalAmount, createdAt) ==
    [id |-> orderID, user_id |-> userID, order_number |-> orderNumber,
     total_amount |-> totalAmount, status |-> "pending", created_at |-> createdAt]

\* (mutation of CartIsEmpty: the emptiness test never answers yes)
CartIsEmptyNever(orderItems) == Len(orderItems) < 0

\* if len(orderItems) == 0
CartIsEmpty(orderItems) == Len(orderItems) = 0

\* CreateOrder up to the 400 answer of ShouldBindJSON: customer_name or
\* customer_phone is missing from the body
CreateOrderBindError(u) ==
    /\ resp' = Response("CreateOrder", 400, 0)
    /\ UNCHANGED <<cart_items, orders, order_items, room_bookings, seq, now, proc,
                   notified, dateLayout, zone, clearing, mail, otps, users, logins, rooms, products>>

\* tx, err := h.db.Begin() returns an error: the 500 answer
CreateOrderBeginFail(p, u) ==
    /\ proc[p] = Idle
    /\ resp' = Response("CreateOrder", 500, 0)
    /\ UNCHANGED <<cart_items, orders, order_items, room_bookings, seq, now, proc,
                   notified, dateLayout, zone, clearing, mail, otps, users, logins, rooms, products>>

\* tx, err := h.db.Begin(): the transaction begins
CreateOrderBegin(p, u) ==
    /\ proc[p] = Idle
    /\ Timestamp <= MaxTimestamp
    /\ proc' = [proc EXCEPT ![p] =
                  [pc |-> "co_cart", user_id |-> u, created_at |-> Timestamp]]
    /\ UNCHANGED <<cart_items, orders, order_items, room_bookings, seq, now, resp,
                   notified, dateLayout, zone, clearing, mail, otps, users, logins, rooms, products>>

\* the cart query, the pricing loop and the empty-cart answer
CreateOrderReadCart(p) ==
    /\ proc[p].pc = "co_cart"
    /\ \E lines \in Orderings(UserLines(cart_items, proc[p].user_id)) :
          LET orderItems == ReadCart(lines, dateLayout)
          IN  IF CartIsEmpty(orderItems)
              THEN /\ resp' = Response("CreateOrder", 400, 0)
                   /\ proc' = [proc EXCEPT ![p] = Idle]
              ELSE /\ resp' = resp
                   /\ proc' = [proc EXCEPT ![p] =
                        [pc |-> "co_number", user_id |-> proc[p].user_id,
                         orderItems |-> orderItems,
                         totalAmount |-> TotalAmount(orderItems),
                         created_at |-> proc[p].created_at]]
    /\ UNCHANGED <<cart_items, orders, order_items, room_bookings, seq, now, notified,
                   dateLayout, zone, clearing, mail, otps, users, logins, rooms, products>>

\* orderNumber := fmt.Sprintf("ORD-%d-%d", time.Now().Unix(), userID): the clock
\* is read before the INSERT of the order is sent
CreateOrderNumber(p) ==
    /\ proc[p].pc = "co_number"
    /\ proc' = [proc EXCEPT ![p] =
                  [pc |-> "co_order", user_id |-> proc[p].user_id,
                   orderItems |-> proc[p].orderItems,
                   totalAmount |-> proc[p].totalAmount,
                   created_at |-> proc[p].created_at,
                   order_number |-> OrderNumber(now, proc[p].user_id)]]
    /\ UNCHANGED <<cart_items, orders, order_items, room_bookings, seq, now, resp,
                   notified, dateLayout, zone, clearing, mail, otps, users, logins, rooms, products>>

\* the loop over orderItems stands before the insert of item k
AtItem(pr, k) ==
    [pc |-> "co_item", user_id |-> pr.user_id, orderItems |-> pr.orderItems,
     order |-> pr.order, items |-> pr.items, bookings |-> pr.bookings, k |-> k]

\* the loop goes on to the next item or, after the last, to the cart delete
NextItem(pr) ==
    IF pr.k < Len(pr.orderItems)
    THEN AtItem(pr, pr.k + 1)
    ELSE [pc |-> "co_clear", user_id |-> pr.user_id, order |-> pr.order,
          items |-> pr.items, bookings |-> pr.bookings]

\* the loop over orderItems begins, the order inserted
FirstItem(pr, order) ==
    AtItem([user_id |-> pr.user_id, orderItems |-> pr.orderItems, order |-> order,
            items |-> {}, bookings |-> {}], 1)

\* another transaction holds the order number uncommitted
NumberHeld(p, order_number) ==
    \E q \in Procs \ {p} : HasOrder(q) /\ proc[q].order.order_number = order_number

\* (mutation of CreateOrderInsertOrder: orders.order_number is not UNIQUE)
CreateOrderInsertOrderAnyNumber(p) ==
    /\ proc[p].pc = "co_order"
    /\ seq.orders < MaxOrderId
    /\ LET order == OrderRow(seq.orders + 1, proc[p].user_id, proc[p].order_number,
                             proc[p].totalAmount, proc[p].created_at)
       IN  /\ seq' = [seq EXCEPT !.orders = order.id]
           /\ resp' = resp
           /\ proc' = [proc EXCEPT ![p] = FirstItem(proc[p], order)]
    /\ UNCHANGED <<cart_items, orders, order_items, room_bookings, now, notified,
                   dateLayout, zone, clearing, mail, otps, users, logins, rooms, products>>

\* INSERT INTO orders ... RETURNING id, created_at with the order number built:
\* the insert draws the id, waits while another transaction holds the same
\* order_number uncommitted, and fails when the number is that of a stored order
CreateOrderInsertOrder(p) ==
    /\ proc[p].pc = "co_order"
    /\ seq.orders < MaxOrderId
    /\ LET order == OrderRow(seq.orders + 1, proc[p].user_id, proc[p].order_number,
                             proc[p].totalAmount, proc[p].created_at)
       IN  /\ seq' = [seq EXCEPT !.orders = order.id]
           /\ IF NumberHeld(p, order.order_number)
              THEN /\ resp' = resp
                   /\ proc' = [proc EXCEPT ![p] =
                        [pc |-> "co_order_wait", user_id |-> proc[p].user_id,
                         orderItems |-> proc[p].orderItems, order |-> order]]
              ELSE IF \E o \in orders : o.order_number = order.order_number
              THEN /\ resp' = Response("CreateOrder", 500, 0)
                   /\ proc' = [proc EXCEPT ![p] = Idle]
              ELSE /\ resp' = resp
                   /\ proc' = [proc EXCEPT ![p] = FirstItem(proc[p], order)]
    /\ UNCHANGED <<cart_items, orders, order_items, room_bookings, now, notified,
                   dateLayout, zone, clearing, mail, otps, users, logins, rooms, products>>

\* the insert of the order goes on once the transaction that held its number
\* has ended: it fails when that transaction committed
CreateOrderInsertOrderResume(p) ==
    /\ proc[p].pc = "co_order_wait"
    /\ ~NumberHeld(p, proc[p].order.order_number)
    /\ IF \E o \in orders : o.order_number = proc[p].order.order_number
       THEN /\ resp' = Response("CreateOrder", 500, 0)
            /\ proc' = [proc EXCEPT ![p] = Idle]
       ELSE /\ resp' = resp
            /\ proc' = [proc EXCEPT ![p] = FirstItem(proc[p], proc[p].order)]
    /\ UNCHANGED <<cart_items, orders, order_items, room_bookings, seq, now, notified,
                   dateLayout, zone, clearing, mail, otps, users, logins, rooms, products>>

\* INSERT INTO order_items ... for item k of the loop
CreateOrderInsertItem(p) ==
    /\ proc[p].pc = "co_item"
    /\ LET item == proc[p].orderItems[proc[p].k]
           row == OrderItemRow(item, proc[p].order.id, seq.order_items + 1)
           written == [proc[p] EXCEPT !.items = @ \cup {row}]
       IN  proc' = [proc EXCEPT ![p] =
                      IF IsBooked(item) THEN [written EXCEPT !.pc = "co_booking"]
                      ELSE NextItem(written)]
    /\ seq' = [seq EXCEPT !.order_items = @ + 1]
    /\ UNCHANGED <<cart_items, orders, order_items, room_bookings, now, resp, notified,
                   dateLayout, zone, clearing, mail, otps, users, logins, rooms, products>>

\* (mutation of CreateOrderInsertBooking: the checkout fails when the room
\* already has a confirmed booking, as counted by the availability query)
CreateOrderInsertBookingIfFree(p) ==
    /\ proc[p].pc = "co_booking"
    /\ LET item == proc[p].orderItems[proc[p].k]
           row == RoomBookingRow(item, proc[p].order.id, seq.room_bookings + 1)
       IN  IF \E c \in room_bookings :
                 /\ c.room_id = row.room_id /\ c.status = "confirmed"
                 /\ Val(c.check_in_date) < Val(row.check_out_date)
                 /\ Val(row.check_in_date) < Val(c.check_out_date)
           THEN /\ resp' = Response("CreateOrder", 500, 0)
                /\ proc' = [proc EXCEPT ![p] = Idle]
                /\ seq' = seq
           ELSE /\ proc' = [proc EXCEPT ![p] =
                       NextItem([proc[p] EXCEPT !.bookings = @ \cup {row}])]
                /\ seq' = [seq EXCEPT !.room_bookings = @ + 1]
                /\ resp' = resp
    /\ UNCHANGED <<cart_items, orders, order_items, room_bookings, now, notified,
                   dateLayout, zone, clearing, mail, otps, users, logins, rooms, products>>

\* INSERT INTO room_bookings ... for item k, a room item with both dates
CreateOrderInsertBooking(p) ==
    /\ proc[p].pc = "co_booking"
    /\ LET item == proc[p].orderItems[proc[p].k]
           row == RoomBookingRow(item, proc[p].order.id, seq.room_bookings + 1)
       IN  proc' = [proc EXCEPT ![p] =
                      NextItem([proc[p] EXCEPT !.bookings = @ \cup {row}])]
    /\ seq' = [seq EXCEPT !.room_bookings = @ + 1]
    /\ UNCHANGED <<cart_items, orders, order_items, room_bookings, now, resp, notified,
                   dateLayout, zone, clearing, mail, otps, users, logins, rooms, products>>

\* the transaction after its DELETE of the cart: seen are the ids of the rows
\* the DELETE saw when it started, deleted those it deleted
Deleted(pr, seen, deleted) ==
    [pc |-> "co_commit", user_id |-> pr.user_id, order |-> pr.order,
     items |-> pr.items, bookings |-> pr.bookings, seen |-> seen, deleted |-> deleted]

\* (mutation of CreateOrderClearCart: the DELETE matches no row)
CreateOrderClearCartNothing(p) ==
    /\ proc[p].pc = "co_clear"
    /\ LET seen == {r.id : r \in UserLines(cart_items, proc[p].user_id)}
       IN  proc' = [proc EXCEPT ![p] = Deleted(proc[p], seen, {})]
    /\ UNCHANGED <<cart_items, orders, order_items, room_bookings, seq, now, resp,
                   notified, dateLayout, zone, clearing, mail, otps, users, logins, rooms, products>>

\* DELETE FROM cart_items WHERE user_id = $1, inside the transaction: it deletes
\* the customer's rows, or waits when one of them is locked
CreateOrderClearCart(p) ==
    /\ proc[p].pc = "co_clear"
    /\ LET seen == {r.id : r \in UserLines(cart_items, proc[p].user_id)}
       IN  IF \E id \in seen : Locked(id)
           THEN proc' = [proc EXCEPT ![p] =
                   [pc |-> "co_clear_wait", user_id |-> proc[p].user_id,
                    order |-> proc[p].order, items |-> proc[p].items,
                    bookings |-> proc[p].bookings, seen |-> seen]]
           ELSE proc' = [proc EXCEPT ![p] = Deleted(proc[p], seen, seen)]
    /\ UNCHANGED <<cart_items, orders, order_items, room_bookings, seq, now, resp,
                   notified, dateLayout, zone, clearing, mail, otps, users, logins, rooms, products>>

\* the DELETE goes on once the transactions it waited for have ended: it deletes
\* the rows it saw that are still there
CreateOrderClearCartResume(p) ==
    /\ proc[p].pc = "co_clear_wait"
    /\ \A id \in proc[p].seen : ~Locked(id)
    /\ proc' = [proc EXCEPT ![p] =
          Deleted(proc[p], proc[p].seen,
                  {r.id : r \in {x \in cart_items : x.id \in proc[p].seen}})]
    /\ UNCHANGED <<cart_items, orders, order_items, room_bookings, seq, now, resp,
                   notified, dateLayout, zone, clearing, mail, otps, users, logins, rooms, products>>

\* tx.Commit, go sendOrderNotifications(...), and the 201 answer
CreateOrderCommit(p) ==
    /\ proc[p].pc = "co_commit"
    /\ orders' = orders \cup {proc[p].order}
    /\ order_items' = order_items \cup proc[p].items
    /\ room_bookings' = room_bookings \cup proc[p].bookings
    /\ cart_items' = {r \in cart_items : r.id \notin proc[p].deleted}
    /\ notified' = notified \cup {proc[p].order.id}
    /\ resp' = Response("CreateOrder", 201, proc[p].order.id)
    /\ proc' = [proc EXCEPT ![p] = Idle]
    /\ UNCHANGED <<seq, now, dateLayout, zone, clearing, mail, otps, users, logins, rooms, products>>

\* rows written so far by the transaction of request p
Written(p, field) ==
    IF ~HasOrder(p) THEN {}
    ELSE IF field = "orders" THEN {proc[p].order}
    ELSE proc[p][field]

\* (mutation of CreateOrderFail: the statements ran on the pool, not in the
\* transaction, so what was written before the failure stays)
CreateOrderFailKeepsWrites(p) ==
    /\ InTx(p)
    /\ resp' = Response("CreateOrder", 500, 0)
    /\ proc' = [proc EXCEPT ![p] = Idle]
    /\ orders' = orders \cup Written(p, "orders")
    /\ order_items' = order_items \cup Written(p, "items")
    /\ room_bookings' = room_bookings \cup Written(p, "bookings")
    /\ UNCHANGED <<cart_items, seq, now, notified, dateLayout, zone, clearing, mail, otps, users, logins, rooms, products>>

\* (mutation of CreateOrderFail: the notification goroutine is started before
\* tx.Commit, so it runs for a checkout whose commit fails)
CreateOrderFailNotified(p) ==
    /\ InTx(p)
    /\ resp' = Response("CreateOrder", 500, 0)
    /\ proc' = [proc EXCEPT ![p] = Idle]
    /\ notified' = notified \cup {o.id : o \in Written(p, "orders")}
    /\ UNCHANGED <<cart_items, orders, order_items, room_bookings, seq, now,
                   dateLayout, zone, clearing, mail, otps, users, logins, rooms, products>>

\* a statement of the transaction or the commit fails: return, deferred tx.Rollback
CreateOrderFail(p) ==
    /\ InTx(p)
    /\ resp' = Response("CreateOrder", 500, 0)
    /\ proc' = [proc EXCEPT ![p] = Idle]
    /\ UNCHANGED <<cart_items, orders, order_items, room_bookings, seq, now, notified,
                   dateLayout, zone, clearing, mail, otps, users, logins, rooms, products>>

(***************************************************************************)
(* Notifications: sendOrderNotifications, one goroutine per committed       *)
(* order.  http.Post uses the default client, which has no timeout: a call  *)
(* succeeds, returns an error, or never returns.                            *)
(***************************************************************************)
PostOutcomes == {"ok", "error", "hung"}
CustomerEmails == {"", "guest@example.com"}

\* the goroutine after a post: stuck in it, or on to what follows
AfterPost(outcome, next) == IF outcome = "hung" THEN "hung" ELSE next

\* if customerEmail != "" { http.Post(.../send-order-confirmation ...) }
NotifyCustomer(orderID, customerEmail, outcome) ==
    /\ orderID \in notified
    /\ orderID \notin DOMAIN mail
    /\ IF customerEmail = ""
       THEN mail' = mail @@ (orderID :> [pc |-> "admin", posts |-> <<>>])
       ELSE mail' = mail @@ (orderID :>
                       [pc |-> AfterPost(outcome, "admin"),
                        posts |-> <<[path |-> "/send-order-confirmation",
                                     outcome |-> outcome]>>])
    /\ UNCHANGED <<cart_items, orders, order_items, room_bookings, seq, now, proc,
                   resp, notified, dateLayout, zone, clearing, otps, users, logins, rooms, products>>

\* (mutation of NotifyAdmin: the post is tried again after an error)
NotifyAdminAgain(orderID, outcome) ==
    /\ orderID \in DOMAIN mail
    /\ mail[orderID].pc = "admin"
    /\ Len(mail[orderID].posts) < 4
    /\ mail' = [mail EXCEPT ![orderID] =
                  [pc |-> IF outcome = "error" THEN "admin" ELSE AfterPost(outcome, "done"),
                   posts |-> Append(@.posts, [path |-> "/send-admin-notification",
                                              outcome |-> outcome])]]
    /\ UNCHANGED <<cart_items, orders, order_items, room_bookings, seq, now, proc,
                   resp, notified, dateLayout, zone, clearing, otps, users, logins, rooms, products>>

\* http.Post(.../send-admin-notification ...) and the end of the goroutine
NotifyAdmin(orderID, outcome) ==
    /\ orderID \in DOMAIN mail
    /\ mail[orderID].pc = "admin"
    /\ mail' = [mail EXCEPT ![orderID] =
                  [pc |-> AfterPost(outcome, "done"),
                   posts |-> Append(@.posts, [path |-> "/send-admin-notification",
                                              outcome |-> outcome])]]
    /\ UNCHANGED <<cart_items, orders, order_items, room_bookings, seq, now, proc,
                   resp, notified, dateLayout, zone, clearing, otps, users, logins, rooms, products>>

(***************************************************************************)
(* Administration: UpdateOrderStatus.                                       *)
(***************************************************************************)

\* UPDATE orders SET status = $1 ... WHERE id = $3
SetOrderStatus(rows, orderID, status) ==
    {IF o.id = orderID THEN [o EXCEPT !.status = status] ELSE o : o \in rows}

\* UPDATE room_bookings SET status = 'cancelled' WHERE order_id = $1
CancelBookings(rows, orderID) ==
    {IF b.order_id = orderID THEN [b EXCEPT !.status = "cancelled"] ELSE b : b \in rows}

\* UpdateOrderStatus whose UPDATE of orders returns an error: the 500 answer
UpdateOrderStatusFail(orderID, status) ==
    /\ status \in OrderStatuses
    /\ resp' = Response("UpdateOrderStatus", 500, 0)
    /\ UNCHANGED <<cart_items, orders, order_items, room_bookings, seq, now, proc,
                   notified, dateLayout, zone, clearing, mail, otps, users, logins, rooms, products>>

\* UpdateOrderStatus through the validation and the UPDATE of orders, which is
\* committed on its own; a cancellation goes on to the booking update.
UpdateOrderStatusExec(p, orderID, status) ==
    /\ proc[p] = Idle
    /\ IF status \notin OrderStatuses
       THEN /\ resp' = Response("UpdateOrderStatus", 400, 0)
            /\ UNCHANGED <<orders, proc>>
       ELSE IF ~\E o \in orders : o.id = orderID
       THEN /\ resp' = Response("UpdateOrderStatus", 404, 0)
            /\ UNCHANGED <<orders, proc>>
       ELSE /\ orders' = SetOrderStatus(orders, orderID, status)
            /\ IF status = "cancelled"
               THEN /\ proc' = [proc EXCEPT ![p] = [pc |-> "us_cascade", orderID |-> orderID]]
                    /\ resp' = resp
               ELSE /\ proc' = proc
                    /\ resp' = Response("UpdateOrderStatus", 200, orderID)
    /\ UNCHANGED <<cart_items, order_items, room_bookings, seq, now, notified,
                   dateLayout, zone, clearing, mail, otps, users, logins, rooms, products>>

\* the booking update of a cancellation, its result not looked at, and the 200
\* answer
UpdateOrderStatusCascade(p) ==
    /\ proc[p].pc = "us_cascade"
    /\ \/ room_bookings' = CancelBookings(room_bookings, proc[p].orderID)
       \/ room_bookings' = room_bookings
    /\ resp' = Response("UpdateOrderStatus", 200, proc[p].orderID)
    /\ proc' = [proc EXCEPT ![p] = Idle]
    /\ UNCHANGED <<cart_items, orders, order_items, seq, now, notified, dateLayout, zone, clearing, mail, otps, users, logins, rooms, products>>

\* the rooms and products an administrator enters: a room number that is taken
\* and one that is free, a price that is missing (the zero value) and one given
RoomNumbers == {"101", "701"}
RoomPrices == {0, 19999}
ProductPrices == {0, 1000}

\* POST /api/admin/rooms: `binding:"required"` refuses a price_per_night of 0;
\* the INSERT fails on room_number UNIQUE, its id being drawn all the same
AddRoom(room_number, price_per_night) ==
    /\ IF price_per_night = 0
       THEN /\ resp' = Response("AddRoom", 400, 0)
            /\ UNCHANGED <<rooms, seq>>
       ELSE /\ seq.rooms < MaxRoomId
            /\ seq' = [seq EXCEPT !.rooms = @ + 1]
            /\ IF \E r \in rooms : r.room_number = room_number
               THEN /\ resp' = Response("AddRoom", 500, 0)
                    /\ rooms' = rooms
               ELSE /\ resp' = Response("AddRoom", 201, seq.rooms + 1)
                    /\ rooms' = rooms \cup
                          {[id |-> seq.rooms + 1, room_number |-> room_number,
                            price_per_night |-> price_per_night, is_available |-> TRUE]}
    /\ UNCHANGED <<cart_items, orders, order_items, room_bookings, now, proc, notified,
                   dateLayout, zone, clearing, mail, otps, users, logins, products>>

\* POST /api/admin/products: `binding:"required"` refuses a price of 0
AddProduct(price) ==
    /\ IF price = 0
       THEN /\ resp' = Response("AddProduct", 400, 0)
            /\ UNCHANGED <<products, seq>>
       ELSE /\ seq.products < MaxProductId
            /\ seq' = [seq EXCEPT !.products = @ + 1]
            /\ resp' = Response("AddProduct", 201, seq.products + 1)
            /\ products' = products \cup
                  {[id |-> seq.products + 1, price |-> price, is_active |-> TRUE]}
    /\ UNCHANGED <<cart_items, orders, order_items, room_bookings, now, proc, notified,
                   dateLayout, zone, clearing, mail, otps, users, logins, rooms>>

(***************************************************************************)
(* Rooms: CheckRoomAvailability.                                            *)
(***************************************************************************)

\* days of the availability requests and of the stays booked beside them:
\* 2025-06-01, 2025-06-03, 2025-06-05, 2025-06-06
BookingDays == {1, 3, 5, 6}
RoomIds == {1, 2}
\* the stays booked: overlapping the first days, adjacent to them, of no night,
\* and inverted
BookedStays == { <<Some(3), Some(6)>>, <<Some(5), Some(6)>>, <<Some(5), Some(5)>>,
                 <<Some(6), Some(3)>> }

\* SELECT COUNT(*) FROM room_bookings WHERE room_id = $1
\*   AND status IN ('confirmed', 'checked_in')
\*   AND ((check_in_date <= $2 AND check_out_date > $2) OR
\*        (check_in_date < $3 AND check_out_date >= $3) OR
\*        (check_in_date >= $2 AND check_out_date <= $3))
ConflictingBookings(rows, room_id, checkIn, checkOut) ==
    { b \in rows :
        /\ b.room_id = room_id
        /\ b.status \in {"confirmed", "checked_in"}
        /\ \/ Val(b.check_in_date) <= checkIn /\ Val(b.check_out_date) > checkIn
           \/ Val(b.check_in_date) < checkOut /\ Val(b.check_out_date) >= checkOut
           \/ Val(b.check_in_date) >= checkIn /\ Val(b.check_out_date) <= checkOut }

\* CheckRoomAvailability: the count, available := count == 0, and the 200 answer
CheckRoomAvailability(room_id, checkIn, checkOut) ==
    /\ LET count == Cardinality(ConflictingBookings(room_bookings, room_id, checkIn,
                                                    checkOut))
       IN  resp' = [handler |-> "CheckRoomAvailability", code |-> 200, id |-> 0,
                    available |-> (count = 0), room_id |-> room_id,
                    check_in_date |-> checkIn, check_out_date |-> checkOut,
                    conflicting_bookings |-> count]
    /\ UNCHANGED <<cart_items, orders, order_items, room_bookings, seq, now, proc,
                   notified, dateLayout, zone, clearing, mail, otps, users, logins, rooms, products>>

(***************************************************************************)
(* The read handlers GET /api/cart and GET /api/orders.                     *)
(***************************************************************************)

\* cart rows in descending id: ORDER BY ci.created_at DESC, the INSERT of a cart
\* line being one statement on the pool that fixes created_at when it starts
\* and draws the id before it can wait
RECURSIVE ByIdDesc(_)
ByIdDesc(S) ==
    IF S = {} THEN <<>>
    ELSE LET x == CHOOSE y \in S : \A z \in S : y.id >= z.id
         IN  <<x>> \o ByIdDesc(S \ {x})

\* (mutation of CartItem: a room line is priced for one unit whatever its quantity)
CartItemOneUnit(row, layout) ==
    LET CheckInDate == ScanDate(row.check_in_date, layout)
        CheckOutDate == ScanDate(row.check_out_date, layout)
        UnitPriceOf == UnitPrice(row.item_type, row.item_id)
        dated == row.item_type = "room" /\ ~IsNull(CheckInDate) /\ ~IsNull(CheckOutDate)
        nights == IF dated THEN Nights(Val(CheckInDate), Val(CheckOutDate)) ELSE 1
        itemTotal == IF dated THEN UnitPriceOf * nights
                     ELSE UnitPriceOf * row.quantity
    IN  [id |-> row.id, item_type |-> row.item_type, item_id |-> row.item_id,
         quantity |-> row.quantity, unit_price |-> UnitPriceOf,
         total_price |-> itemTotal,
         check_in_date |-> CheckInDate, check_out_date |-> CheckOutDate,
         nights |-> IF row.item_type = "room" THEN Some(nights) ELSE Null]

\* one pass of the loop of GetCartItems: the line as the response shows it
CartItem(row, layout) ==
    LET CheckInDate == ScanDate(row.check_in_date, layout)
        CheckOutDate == ScanDate(row.check_out_date, layout)
        UnitPriceOf == UnitPrice(row.item_type, row.item_id)
        dated == row.item_type = "room" /\ ~IsNull(CheckInDate) /\ ~IsNull(CheckOutDate)
        nights == IF dated THEN Nights(Val(CheckInDate), Val(CheckOutDate)) ELSE 1
        itemTotal == IF dated THEN UnitPriceOf * nights * row.quantity
                     ELSE UnitPriceOf * row.quantity
    IN  [id |-> row.id, item_type |-> row.item_type, item_id |-> row.item_id,
         quantity |-> row.quantity, unit_price |-> UnitPriceOf,
         total_price |-> itemTotal,
         check_in_date |-> CheckInDate, check_out_date |-> CheckOutDate,
         nights |-> IF row.item_type = "room" THEN Some(nights) ELSE Null]

\* totalAmount += itemTotal over the loop of GetCartItems
RECURSIVE CartTotal(_)
CartTotal(cartItems) ==
    IF cartItems = <<>> THEN 0
    ELSE cartItems[1].total_price + CartTotal(Tail(cartItems))

\* the body GET /api/cart answers with for customer u
CartView(rows, u, layout) ==
    LET lines == ByIdDesc(UserLines(rows, u))
        cartItems == [i \in 1..Len(lines) |-> CartItem(lines[i], layout)]
    IN  [handler |-> "GetCartItems", code |-> 200, id |-> 0,
         cart_items |-> cartItems, total_amount |-> CartTotal(cartItems),
         item_count |-> Len(cartItems), user_id |-> u]

\* GET /api/cart: one query
GetCartItems(u) ==
    /\ resp' = CartView(cart_items, u, dateLayout)
    /\ UNCHANGED <<cart_items, orders, order_items, room_bookings, seq, now, proc,
                   notified, dateLayout, zone, clearing, mail, otps, users, logins, rooms, products>>

\* getOrderItems: the lines of one order in ascending id; the query does not
\* select order_id, so OrderID keeps its zero value
getOrderItems(orderID) ==
    LET found == ById({i \in order_items : i.order_id = orderID})
    IN  [k \in 1..Len(found) |-> [found[k] EXCEPT !.order_id = 0]]

\* rows of a set from the latest created_at to the earliest
RECURSIVE ByCreatedAtDesc(_)
ByCreatedAtDesc(S) ==
    IF S = {} THEN <<>>
    ELSE LET x == CHOOSE y \in S : \A z \in S : y.created_at >= z.created_at
         IN  <<x>> \o ByCreatedAtDesc(S \ {x})

\* (mutation of OrdersQuery: the query has no WHERE user_id = $1)
OrdersQueryOfEveryone(rows, u) == ByCreatedAtDesc(rows)

\* SELECT ... FROM orders WHERE user_id = $1 ORDER BY created_at DESC
OrdersQuery(rows, u) == ByCreatedAtDesc({o \in rows : o.user_id = u})

\* one order as GET /api/orders shows it, with the items fetched for it
OrderView(o, items) ==
    [id |-> o.id, order_number |-> o.order_number, total_amount |-> o.total_amount,
     status |-> o.status, Items |-> items]

\* the 200 answer of GET /api/orders
OrdersView(views) ==
    [handler |-> "GetOrders", code |-> 200, id |-> 0, orders |-> views,
     count |-> Len(views)]

\* GET /api/orders: the query of the orders; with no row the loop does not run
GetOrders(p, u) ==
    /\ proc[p] = Idle
    /\ LET found == OrdersQuery(orders, u)
       IN  IF found = <<>>
           THEN /\ resp' = OrdersView(<<>>)
                /\ proc' = proc
           ELSE /\ resp' = resp
                /\ proc' = [proc EXCEPT ![p] =
                      [pc |-> "go_items", user_id |-> u, rows |-> found,
                       orders |-> <<>>]]
    /\ UNCHANGED <<cart_items, orders, order_items, room_bookings, seq, now,
                   notified, dateLayout, zone, clearing, mail, otps, users, logins, rooms, products>>

\* orders = append(orders, order) with the items fetched for the row the loop
\* stands at; after the last row the 200 answer
GetOrdersAppend(p, items) ==
    LET k == Len(proc[p].orders) + 1
        views == Append(proc[p].orders, OrderView(proc[p].rows[k], items))
    IN  IF k = Len(proc[p].rows)
        THEN /\ resp' = OrdersView(views)
             /\ proc' = [proc EXCEPT ![p] = Idle]
        ELSE /\ resp' = resp
             /\ proc' = [proc EXCEPT ![p] = [proc[p] EXCEPT !.orders = views]]

\* order.Items, _ = h.getOrderItems(order.ID): a query of its own on the pool
GetOrdersItems(p) ==
    /\ proc[p].pc = "go_items"
    /\ GetOrdersAppend(p, getOrderItems(proc[p].rows[Len(proc[p].orders) + 1].id))
    /\ UNCHANGED <<cart_items, orders, order_items, room_bookings, seq, now,
                   notified, dateLayout, zone, clearing, mail, otps, users, logins, rooms, products>>

\* getOrderItems returns nil and an error, which GetOrders drops: the order is
\* shown without items
GetOrdersItemsDropped(p) ==
    /\ proc[p].pc = "go_items"
    /\ GetOrdersAppend(p, <<>>)
    /\ UNCHANGED <<cart_items, orders, order_items, room_bookings, seq, now,
                   notified, dateLayout, zone, clearing, mail, otps, users, logins, rooms, products>>

\* the query of the orders or the Scan of a row returns an error: the 500 answer
GetOrdersFail(p) ==
    /\ proc[p] = Idle \/ proc[p].pc = "go_items"
    /\ resp' = Response("GetOrders", 500, 0)
    /\ proc' = [proc EXCEPT ![p] = Idle]
    /\ UNCHANGED <<cart_items, orders, order_items, room_bookings, seq, now,
                   notified, dateLayout, zone, clearing, mail, otps, users, logins, rooms, products>>

(***************************************************************************)
(* Authentication: POST /api/auth/send-otp and /api/auth/verify-otp.  Every  *)
(* statement of the two handlers runs on the pool, in its own transaction.  *)
(***************************************************************************)
MaxOtpId == 2

Phones == {"+1234567890", "+1555000111"}
OtpCodes == {"000042", "271828"}

\* expiresAt := time.Now().Add(5 * time.Minute), in seconds
OtpLifetime == 300

Shop == <<cart_items, orders, order_items, room_bookings, notified, dateLayout, zone, clearing, mail,
          rooms, products>>

\* POST /api/auth/send-otp; otp is what rand.Intn produced.  expiresAt goes to
\* the driver with the offset of time.Local and the TIMESTAMP column, which has
\* no time zone, keeps its local wall clock; the driver reads that back as UTC,
\* so the time VerifyOTP compares with is expiresAt moved by the offset
SendOTP(phone_number, otp) ==
    /\ seq.otps < MaxOtpId
    /\ seq' = [seq EXCEPT !.otps = @ + 1]
    /\ otps' = otps \cup {[id |-> seq.otps + 1, phone_number |-> phone_number,
                           otp_code |-> otp, expires_at |-> now + OtpLifetime + zone,
                           is_used |-> FALSE]}
    /\ resp' = Response("SendOTP", 200, 0)
    /\ UNCHANGED <<Shop, now, proc, users, logins>>

\* the lifetime of an OTP passes, or a day
SleepTimes == {OtpLifetime + 1, 86400}
Sleep ==
    /\ now <= MaxClock
    /\ \E d \in SleepTimes : now' = now + d
    /\ UNCHANGED <<Shop, seq, proc, resp, otps, users, logins>>

\* SELECT ... WHERE phone_number = $1 AND otp_code = $2 ORDER BY created_at DESC LIMIT 1
LatestOtp(rows, phone_number, otp_code) ==
    LET found == {o \in rows : o.phone_number = phone_number /\ o.otp_code = otp_code}
    IN  {o \in found : \A x \in found : x.id <= o.id}

\* VerifyOTP up to the checks of the record read: unknown, used, expired
VerifyOTPSelect(p, phone_number, otp_code) ==
    /\ proc[p] = Idle
    /\ LET found == LatestOtp(otps, phone_number, otp_code)
       IN  IF found = {}
           THEN /\ resp' = Response("VerifyOTP", 401, 0)
                /\ proc' = proc
           ELSE LET otp == CHOOSE o \in found : TRUE
                IN  IF otp.is_used \/ now > otp.expires_at
                    THEN /\ resp' = Response("VerifyOTP", 401, 0)
                         /\ proc' = proc
                    ELSE /\ resp' = resp
                         /\ proc' = [proc EXCEPT ![p] =
                               [pc |-> "vo_mark", phone_number |-> phone_number,
                                otpID |-> otp.id]]
    /\ UNCHANGED <<Shop, seq, now, otps, users, logins>>

\* UPDATE otps SET is_used = true WHERE id = $1
VerifyOTPMark(p) ==
    /\ proc[p].pc = "vo_mark"
    /\ otps' = {IF o.id = proc[p].otpID THEN [o EXCEPT !.is_used = TRUE] ELSE o :
                  o \in otps}
    /\ proc' = [proc EXCEPT ![p] =
          [pc |-> "vo_user", phone_number |-> proc[p].phone_number,
           otpID |-> proc[p].otpID]]
    /\ UNCHANGED <<Shop, seq, now, resp, users, logins>>

\* the answer "Login successful" for user userID
LoginSuccessful(p, userID) ==
    /\ resp' = Response("VerifyOTP", 200, userID)
    /\ logins' = Append(logins, [otp_id |-> proc[p].otpID, user_id |-> userID])
    /\ proc' = [proc EXCEPT ![p] = Idle]

\* SELECT id, name, is_admin FROM users WHERE phone_number = $1
VerifyOTPUser(p) ==
    /\ proc[p].pc = "vo_user"
    /\ LET found == {u \in users : u.phone_number = proc[p].phone_number}
       IN  IF found = {}
           THEN /\ proc' = [proc EXCEPT ![p] =
                      [pc |-> "vo_create", phone_number |-> proc[p].phone_number,
                       otpID |-> proc[p].otpID]]
                /\ UNCHANGED <<resp, logins, rooms, products>>
           ELSE LoginSuccessful(p, (CHOOSE u \in found : TRUE).id)
    /\ UNCHANGED <<Shop, seq, now, otps, users>>

\* INSERT INTO users (phone_number, name) ... RETURNING id, name, is_admin
VerifyOTPCreate(p) ==
    /\ proc[p].pc = "vo_create"
    /\ seq' = [seq EXCEPT !.users = @ + 1]
    /\ IF \E u \in users : u.phone_number = proc[p].phone_number
       THEN /\ resp' = Response("VerifyOTP", 500, 0)
            /\ proc' = [proc EXCEPT ![p] = Idle]
            /\ UNCHANGED <<users, logins, rooms, products>>
       ELSE /\ users' = users \cup {[id |-> seq.users + 1,
                                      phone_number |-> proc[p].phone_number,
                                      name |-> "User", is_admin |-> FALSE]}
            /\ LoginSuccessful(p, seq.users + 1)
    /\ UNCHANGED <<Shop, now, otps>>

(***************************************************************************)
(* Specifications.                                                          *)
(***************************************************************************)

\* Customer 1 fills and empties the cart, one request at a time ("r1": a request
\* starts when the one before it was answered, also a clear that waits), while
\* a checkout of the same customer runs statement by statement on another
\* connection ("r2"), in different seconds; the administrator cancels orders
\* between the statements of both.  A checkout reads the clock once, in
\* CreateOrderNumber, so a second that passes during a checkout leaves the
\* state one passing before or after it leaves: the seconds pass in between.
Next ==
    \/ proc["r2"] = Idle /\ Tick
    \/ \E v \in TxVisits :
          v[1] = 1 /\ clearing = {} /\ AddToCartExists("r1", 1, v[2], 1)
    \/ AddToCartCheck("r1")
    \/ AddToCartInsert("r1")
    \/ AddToCartUpdate("r1")
    \/ \E id \in 1..MaxCartId :
          proc["r1"] = Idle /\ clearing = {} /\ RemoveFromCart(1, id)
    \/ proc["r1"] = Idle /\ clearing = {} /\ ClearCart(1)
    \/ proc["r1"] = Idle /\ clearing = {} /\ ClearCartWait(1)
    \/ \E c \in clearing : ClearCartResume(c)
    \/ CreateOrderBegin("r2", 1)
    \/ CreateOrderReadCart("r2")
    \/ CreateOrderNumber("r2")
    \/ CreateOrderInsertOrder("r2")
    \/ CreateOrderInsertItem("r2")
    \/ CreateOrderInsertBooking("r2")
    \/ CreateOrderClearCart("r2")
    \/ CreateOrderCommit("r2")
    \/ \E o \in orders :
          clearing = {} /\ UpdateOrderStatusExec("r1", o.id, "cancelled")
    \/ UpdateOrderStatusCascade("r1")

Spec == InitPq /\ [][Next]_vars

\* Two customers fill their carts ("r1") while checkouts run ("r2"), within one
\* second of the clock and with either text form of the dates.
NextShop ==
    \/ \E v \in Visits : AddToCartExists("r1", v[1], v[2], 1)
    \/ AddToCartCheck("r1")
    \/ AddToCartInsert("r1")
    \/ AddToCartUpdate("r1")
    \/ \E u \in Users : CreateOrderBegin("r2", u)
    \/ CreateOrderReadCart("r2")
    \/ CreateOrderNumber("r2")
    \/ CreateOrderInsertOrder("r2")
    \/ CreateOrderInsertItem("r2")
    \/ CreateOrderInsertBooking("r2")
    \/ CreateOrderClearCart("r2")
    \/ CreateOrderCommit("r2")

SpecShop == Init /\ [][NextShop]_vars

\* Customer 1 fills the cart ("r1") while checkouts of customer 1, whose cart
\* holds lines or none, and of customer 2, whose cart never holds one, run on
\* another connection ("r2"); tx.Begin and any statement of a checkout may
\* return an error.
NextEmptyCart ==
    \/ \E v \in Visits : v[1] = 1 /\ AddToCartExists("r1", 1, v[2], 1)
    \/ AddToCartCheck("r1")
    \/ AddToCartInsert("r1")
    \/ AddToCartUpdate("r1")
    \/ \E u \in Users : CreateOrderBegin("r2", u)
    \/ \E u \in Users : CreateOrderBeginFail("r2", u)
    \/ CreateOrderFail("r2")
    \/ CreateOrderReadCart("r2")
    \/ CreateOrderNumber("r2")
    \/ CreateOrderInsertOrder("r2")
    \/ CreateOrderInsertItem("r2")
    \/ CreateOrderInsertBooking("r2")
    \/ CreateOrderClearCart("r2")
    \/ CreateOrderCommit("r2")

SpecEmptyCart == InitPq /\ [][NextEmptyCart]_vars

\* The cart store alone: customer 1 ("r1") asks for a room with and without
\* dates, a product, and things not on offer, while customer 2 and a caller
\* without a users row (X-User-ID 3) ask for a product ("r2").
Strangers == {3}
SeqSelections ==
    { Selection("room", 1, <<Some(1), Some(4)>>),
      Selection("room", 1, <<Null, Null>>),
      Selection("product", 1, <<Null, Null>>) }

NextCartSeq ==
    \/ \E s \in SeqSelections, q \in Quantities : AddToCartExists("r1", 1, s, q)
    \/ \E s \in RefusedSelections : AddToCartExists("r1", 1, s, 1)
    \/ \E u \in {2} \cup Strangers :
          AddToCartExists("r2", u, Selection("product", 1, <<Null, Null>>), 1)
    \/ \E p \in Procs : AddToCartCheck(p)
    \/ \E p \in Procs : AddToCartInsert(p)
    \/ \E p \in Procs : AddToCartUpdate(p)
    \/ \E u \in Users, id \in 1..MaxCartId : RemoveFromCart(u, id)
    \/ \E u \in Users, id \in 1..MaxCartId : RemoveFromCartFail(u, id)
    \/ \E u \in Users : ClearCart(u)
    \/ \E u \in Users : ClearCartFail(u)

SpecCartSeq == InitPq /\ [][NextCartSeq]_vars

\* The catalog with room 3 and product 5 taken off the offer: customer 1 asks
\* for things on offer, in any quantity, and for things that are not ("r1"),
\* and the EXISTS query may return an error, while customer 2 asks for a
\* product ("r2").
NextOffer ==
    \/ \E s \in SeqSelections, q \in Quantities : AddToCartExists("r1", 1, s, q)
    \/ \E s \in RefusedSelections \cup RetiredSelections :
          AddToCartExists("r1", 1, s, 1)
    \/ \E s \in RetiredSelections \cup SeqSelections :
          AddToCartExistsFail("r1", 1, s, 1)
    \/ AddToCartExists("r2", 2, Selection("product", 1, <<Null, Null>>), 1)
    \/ \E p \in Procs : AddToCartCheck(p)
    \/ \E p \in Procs : AddToCartInsert(p)
    \/ \E p \in Procs : AddToCartUpdate(p)

SpecOffer == InitRetired /\ [][NextOffer]_vars

\* The cart of one customer under requests of any quantity, two at a time.
NextCartQty ==
    \/ \E p \in Procs, s \in SeqSelections, q \in SignedQuantities \cup {0} :
          AddToCartExists(p, 1, s, q)
    \/ \E p \in Procs : AddToCartCheck(p)
    \/ \E p \in Procs : AddToCartInsert(p)
    \/ \E p \in Procs : AddToCartUpdate(p)
    \/ \E id \in 1..MaxCartId : RemoveFromCart(1, id)
    \/ ClearCart(1)

SpecCartQty == InitPq /\ [][NextCartQty]_vars

\* A customer books stays of room 1 in one order, the order is cancelled, and
\* availability is asked in between.
NextAvail ==
    \/ \E stay \in BookedStays : AddToCartExists("r1", 1, Selection("room", 1, stay), 1)
    \/ AddToCartCheck("r1")
    \/ AddToCartInsert("r1")
    \/ AddToCartUpdate("r1")
    \/ CreateOrderBegin("r1", 1)
    \/ CreateOrderReadCart("r1")
    \/ CreateOrderNumber("r1")
    \/ CreateOrderInsertOrder("r1")
    \/ CreateOrderInsertItem("r1")
    \/ CreateOrderInsertBooking("r1")
    \/ CreateOrderClearCart("r1")
    \/ CreateOrderCommit("r1")
    \/ \E id \in 1..MaxOrderId : UpdateOrderStatusExec("r2", id, "cancelled")
    \/ UpdateOrderStatusCascade("r2")
    \/ \E room \in RoomIds, a, b \in BookingDays : CheckRoomAvailability(room, a, b)

SpecAvail == InitPq /\ [][NextAvail]_vars

\* Orders of customer 1 whose status is changed, with availability asked in
\* between, also between the two statements of a cancellation.
NextAdmin ==
    \/ Tick
    \/ AddToCartExists("r1", 1, Selection("room", 1, <<Some(1), Some(4)>>), 1)
    \/ AddToCartCheck("r1")
    \/ AddToCartInsert("r1")
    \/ AddToCartUpdate("r1")
    \/ CreateOrderBegin("r1", 1)
    \/ CreateOrderReadCart("r1")
    \/ CreateOrderNumber("r1")
    \/ CreateOrderInsertOrder("r1")
    \/ CreateOrderInsertItem("r1")
    \/ CreateOrderInsertBooking("r1")
    \/ CreateOrderClearCart("r1")
    \/ CreateOrderCommit("r1")
    \/ \E id \in 1..MaxOrderId, s \in {"cancelled", "confirmed"} \cup BadOrderStatuses :
          UpdateOrderStatusExec("r2", id, s)
    \/ UpdateOrderStatusCascade("r2")
    \/ \E id \in 1..MaxOrderId : UpdateOrderStatusFail(id, "confirmed")
    \/ CheckRoomAvailability(1, 1, 4)

SpecAdmin == InitPq /\ [][NextAdmin]_vars

\* Two AddToCart requests of one customer running at the same time.
NextCart ==
    \/ \E p \in Procs, s \in Selections : AddToCartExists(p, 1, s, 1)
    \/ \E p \in Procs : AddToCartCheck(p)
    \/ \E p \in Procs : AddToCartInsert(p)
    \/ \E p \in Procs : AddToCartUpdate(p)
    \/ \E p \in Procs : AddToCartFail(p)
    \/ ClearCart(1)

SpecCart == InitPq /\ [][NextCart]_vars

\* Checkouts of customer 1 ("r1") that may fail at any statement, with cart
\* requests of the customer running beside them ("r2"), within one second of the
\* clock.
NextTx ==
    \/ \E v \in TxVisits : v[1] = 1 /\ AddToCartExists("r2", v[1], v[2], 1)
    \/ AddToCartCheck("r2")
    \/ AddToCartInsert("r2")
    \/ AddToCartUpdate("r2")
    \/ CreateOrderBindError(1)
    \/ CreateOrderBegin("r1", 1)
    \/ CreateOrderReadCart("r1")
    \/ CreateOrderNumber("r1")
    \/ CreateOrderInsertOrder("r1")
    \/ CreateOrderInsertItem("r1")
    \/ CreateOrderInsertBooking("r1")
    \/ CreateOrderClearCart("r1")
    \/ CreateOrderCommit("r1")
    \/ CreateOrderFail("r1")

SpecTx == InitPq /\ [][NextTx]_vars

\* Checkouts of two customers ("r1") with cart requests of both running beside
\* them ("r2"), within one second of the clock.
NextRace ==
    \/ \E v \in TxVisits : AddToCartExists("r2", v[1], v[2], 1)
    \/ AddToCartCheck("r2")
    \/ AddToCartInsert("r2")
    \/ AddToCartUpdate("r2")
    \/ \E u \in Users : CreateOrderBegin("r1", u)
    \/ CreateOrderReadCart("r1")
    \/ CreateOrderNumber("r1")
    \/ CreateOrderInsertOrder("r1")
    \/ CreateOrderInsertItem("r1")
    \/ CreateOrderInsertBooking("r1")
    \/ CreateOrderClearCart("r1")
    \/ CreateOrderCommit("r1")

SpecRace == InitPq /\ [][NextRace]_vars

\* Checkouts of customer 1, one at a time within one second of the clock, and
\* the notifications they start.
NextNotify ==
    \/ AddToCartExists("r2", 1, Selection("product", 1, <<Null, Null>>), 1)
    \/ AddToCartCheck("r2")
    \/ AddToCartInsert("r2")
    \/ AddToCartUpdate("r2")
    \/ CreateOrderBegin("r1", 1)
    \/ CreateOrderReadCart("r1")
    \/ CreateOrderNumber("r1")
    \/ CreateOrderInsertOrder("r1")
    \/ CreateOrderInsertItem("r1")
    \/ CreateOrderClearCart("r1")
    \/ CreateOrderCommit("r1")
    \/ CreateOrderFail("r1")
    \/ \E id \in 1..MaxOrderId, e \in CustomerEmails, out \in PostOutcomes :
          NotifyCustomer(id, e, out)
    \/ \E id \in 1..MaxOrderId, out \in PostOutcomes : NotifyAdmin(id, out)

SpecNotify == InitPq /\ [][NextNotify]_vars

\* Two checkouts running at the same time, of one customer or of two, within
\* one second of the clock, over carts that hold room 1 for the same nights.
NextCheckouts ==
    \/ \E u \in Users :
          AddToCartExists("r1", u, Selection("room", 1, <<Some(1), Some(4)>>), 1)
    \/ AddToCartCheck("r1")
    \/ AddToCartInsert("r1")
    \/ AddToCartUpdate("r1")
    \/ \E p \in Procs, u \in Users : CreateOrderBegin(p, u)
    \/ \E p \in Procs : CreateOrderReadCart(p)
    \/ \E p \in Procs : CreateOrderNumber(p)
    \/ \E p \in Procs : CreateOrderInsertOrder(p)
    \/ \E p \in Procs : CreateOrderInsertOrderResume(p)
    \/ \E p \in Procs : CreateOrderInsertItem(p)
    \/ \E p \in Procs : CreateOrderInsertBooking(p)
    \/ \E p \in Procs : CreateOrderClearCart(p)
    \/ \E p \in Procs : CreateOrderCommit(p)

SpecCheckouts == InitPq /\ [][NextCheckouts]_vars

\* Two requests of customer 1 running at the same time while the clock goes
\* on, as when a client sends its request again: adds of one room stay and
\* checkouts, each waiting where the other holds a row; the customer lists the
\* orders.
NextRetry ==
    \/ Tick
    \/ \E p \in Procs :
          AddToCartExists(p, 1, Selection("room", 1, <<Some(1), Some(4)>>), 1)
    \/ \E p \in Procs : AddToCartCheck(p)
    \/ \E p \in Procs : AddToCartInsert(p)
    \/ \E p \in Procs : AddToCartInsertResume(p)
    \/ \E p \in Procs : AddToCartUpdate(p)
    \/ \E p \in Procs : CreateOrderBegin(p, 1)
    \/ \E p \in Procs : CreateOrderReadCart(p)
    \/ \E p \in Procs : CreateOrderNumber(p)
    \/ \E p \in Procs : CreateOrderInsertOrder(p)
    \/ \E p \in Procs : CreateOrderInsertOrderResume(p)
    \/ \E p \in Procs : CreateOrderInsertItem(p)
    \/ \E p \in Procs : CreateOrderInsertBooking(p)
    \/ \E p \in Procs : CreateOrderClearCart(p)
    \/ \E p \in Procs : CreateOrderClearCartResume(p)
    \/ \E p \in Procs : CreateOrderCommit(p)
    \/ \E p \in Procs : GetOrders(p, 1)
    \/ \E p \in Procs : GetOrdersItems(p)

SpecRetry == InitPq /\ [][NextRetry]_vars

\* Customer 1 fills the cart with a room stay and a product, looks at it and
\* checks out, with either text form of the dates.
ViewSelections ==
    { Selection("room", 1, <<Some(1), Some(4)>>),
      Selection("product", 1, <<Null, Null>>) }

NextView ==
    \/ \E sel \in ViewSelections, q \in Quantities : AddToCartExists("r1", 1, sel, q)
    \/ AddToCartCheck("r1")
    \/ AddToCartInsert("r1")
    \/ AddToCartUpdate("r1")
    \/ \E id \in 1..MaxCartId : RemoveFromCart(1, id)
    \/ CreateOrderBegin("r2", 1)
    \/ CreateOrderReadCart("r2")
    \/ CreateOrderNumber("r2")
    \/ CreateOrderInsertOrder("r2")
    \/ CreateOrderInsertItem("r2")
    \/ CreateOrderInsertBooking("r2")
    \/ CreateOrderClearCart("r2")
    \/ CreateOrderCommit("r2")
    \/ GetCartItems(1)

SpecView == Init /\ [][NextView]_vars

\* Two customers fill and empty carts of one product, look at them and list
\* their orders, one request at a time ("r1": a request starts when the one
\* before it was answered, also a clear that waits), while checkouts run on
\* another connection ("r2").
NextIso ==
    \/ \E u \in Users :
          /\ clearing = {}
          /\ AddToCartExists("r1", u, Selection("product", 1, <<Null, Null>>), 1)
    \/ AddToCartCheck("r1")
    \/ AddToCartInsert("r1")
    \/ AddToCartUpdate("r1")
    \/ \E u \in Users, id \in 1..MaxCartId :
          proc["r1"] = Idle /\ clearing = {} /\ RemoveFromCart(u, id)
    \/ \E u \in Users : proc["r1"] = Idle /\ clearing = {} /\ ClearCart(u)
    \/ \E u \in Users : proc["r1"] = Idle /\ clearing = {} /\ ClearCartWait(u)
    \/ \E c \in clearing : ClearCartResume(c)
    \/ \E u \in Users : CreateOrderBegin("r2", u)
    \/ CreateOrderReadCart("r2")
    \/ CreateOrderNumber("r2")
    \/ CreateOrderInsertOrder("r2")
    \/ CreateOrderInsertItem("r2")
    \/ CreateOrderClearCart("r2")
    \/ CreateOrderCommit("r2")
    \/ \E u \in Users : proc["r1"] = Idle /\ clearing = {} /\ GetCartItems(u)
    \/ \E u \in Users : clearing = {} /\ GetOrders("r1", u)
    \/ GetOrdersItems("r1")
    \/ GetOrdersItemsDropped("r1")
    \/ GetOrdersFail("r1")

SpecIso == InitPq /\ [][NextIso]_vars

\* Two customers fill their carts ("r1") and clear them while checkouts run
\* ("r2"): a clear that finds a line locked by a checkout waits for its commit.
NextClear ==
    \/ \E u \in Users :
          AddToCartExists("r1", u, Selection("product", 1, <<Null, Null>>), 1)
    \/ AddToCartCheck("r1")
    \/ AddToCartInsert("r1")
    \/ AddToCartUpdate("r1")
    \/ \E u \in Users : ClearCart(u)
    \/ \E u \in Users : ClearCartWait(u)
    \/ \E c \in clearing : ClearCartResume(c)
    \/ \E u \in Users : CreateOrderBegin("r2", u)
    \/ CreateOrderReadCart("r2")
    \/ CreateOrderNumber("r2")
    \/ CreateOrderInsertOrder("r2")
    \/ CreateOrderInsertItem("r2")
    \/ CreateOrderClearCart("r2")
    \/ CreateOrderCommit("r2")

SpecClear == InitPq /\ [][NextClear]_vars

\* An administrator enters rooms and products; one customer puts room 7 for the
\* nights of 2025-07-01 and 2025-07-02 and a product of 10.00 into the cart and
\* checks out.
JulyFirst == 31
JulyThird == 33
ScenarioRoom == Selection("room", 7, <<Some(JulyFirst), Some(JulyThird)>>)
ScenarioProduct == Selection("product", 6, <<Null, Null>>)

NextScenario ==
    \/ \E n \in RoomNumbers, price \in RoomPrices : AddRoom(n, price)
    \/ \E price \in ProductPrices : AddProduct(price)
    \/ AddToCartExists("r1", 1, ScenarioRoom, 1)
    \/ \E q \in Quantities : AddToCartExists("r1", 1, ScenarioProduct, q)
    \/ AddToCartCheck("r1")
    \/ AddToCartInsert("r1")
    \/ AddToCartUpdate("r1")
    \/ \E id \in 1..MaxCartId : RemoveFromCart(1, id)
    \/ ClearCart(1)
    \/ ClearCartWait(1)
    \/ \E c \in clearing : ClearCartResume(c)
    \/ GetCartItems(1)
    \/ CreateOrderBegin("r2", 1)
    \/ CreateOrderReadCart("r2")
    \/ CreateOrderNumber("r2")
    \/ CreateOrderInsertOrder("r2")
    \/ CreateOrderInsertItem("r2")
    \/ CreateOrderInsertBooking("r2")
    \/ CreateOrderClearCart("r2")
    \/ CreateOrderCommit("r2")

SpecScenario == Init /\ [][NextScenario]_vars

\* Customers ask for one-time passwords and log in with them, two requests at
\* a time.
NextOtp ==
    \/ \E ph \in Phones, c \in OtpCodes : SendOTP(ph, c)
    \/ Sleep
    \/ \E p \in Procs, ph \in Phones, c \in OtpCodes : VerifyOTPSelect(p, ph, c)
    \/ \E p \in Procs : VerifyOTPMark(p)
    \/ \E p \in Procs : VerifyOTPUser(p)
    \/ \E p \in Procs : VerifyOTPCreate(p)

SpecOtp == InitMigrated /\ [][NextOtp]_vars

(***************************************************************************)
(* Properties.                                                              *)
(***************************************************************************)

LinesOf(rows, orderID) == {i \in rows : i.order_id = orderID}

\* C1: for every stored order, the total_price of its order lines sums to the
\* order's total_amount, in every reachable state.
C1_OrderTotalIsSumOfLines ==
    \A o \in orders : SumTotalPrice(LinesOf(order_items, o.id)) = o.total_amount

\* an order of several lines with different totals was stored and later cancelled
C1_Witness ==
    \E o \in orders :
        /\ \E i, j \in LinesOf(order_items, o.id) : i.total_price # j.total_price
        /\ o.status = "cancelled"

\* the tables as one value
Tables == <<cart_items, orders, order_items, room_bookings>>

\* no committed row belongs to order orderID
NoTraceOf(orderID, os, is, bs) ==
    /\ \A o \in os : o.id # orderID
    /\ \A i \in is : i.order_id # orderID
    /\ \A b \in bs : b.order_id # orderID

OrderIdOf(pr) ==
    IF pr.pc \in {"co_order_wait", "co_item", "co_booking", "co_clear", "co_clear_wait",
                  "co_commit"}
    THEN {pr.order.id} ELSE {}

\* C2: checkout is all-or-nothing.  A step of a checkout that is not its commit
\* (a statement inside the transaction, or the failure that ends it) changes no
\* committed row and leaves no row of its order visible; the commit makes the
\* order, exactly its lines and bookings, and the cart deletion visible together.
C2_AllOrNothing ==
    [][\A p \in Procs :
         (InTx(p) /\ proc'[p] # proc[p]) =>
            IF proc'[p] = Idle /\ resp'.code = 201
            THEN /\ NoTraceOf(proc[p].order.id, orders, order_items, room_bookings)
                 /\ proc[p].order \in orders'
                 /\ LinesOf(order_items', proc[p].order.id) = proc[p].items
                 /\ LinesOf(room_bookings', proc[p].order.id) = proc[p].bookings
                 /\ \A r \in cart_items' : r.id \notin proc[p].deleted
            ELSE /\ Tables' = Tables
                 /\ notified' = notified
                 /\ \A id \in OrderIdOf(proc[p]) \cup OrderIdOf(proc'[p]) :
                       NoTraceOf(id, orders', order_items', room_bookings')]_vars

\* a checkout failed after it had written its order, lines and bookings: nothing
\* of it is stored and the cart still holds its lines
C2_Witness ==
    /\ resp = Response("CreateOrder", 500, 0)
    /\ seq.orders = 1 /\ seq.order_items > 0 /\ seq.room_bookings > 0
    /\ orders = {} /\ order_items = {} /\ room_bookings = {}
    /\ Cardinality(cart_items) >= 2

\* C3: a checkout whose cart query finds no line of its customer answers 400
\* (cart is empty); tx.Begin answers nothing yet, and a tx.Begin or a cart query
\* that returns an error answers 500; none of these steps changes an order, an
\* order line, a booking, a cart line or a sequence, or starts a notification.
C3_EmptyCartRejected ==
    /\ [][\A p \in Procs :
             (/\ proc[p].pc = "co_cart"
              /\ UserLines(cart_items, proc[p].user_id) = {}
              /\ CreateOrderReadCart(p)) =>
                /\ resp' = Response("CreateOrder", 400, 0)
                /\ proc'[p] = Idle
                /\ Tables' = Tables
                /\ seq' = seq
                /\ notified' = notified]_vars
    /\ [][\A p \in Procs, u \in Users :
             (proc[p] = Idle /\ CreateOrderBegin(p, u)) =>
                /\ resp' = resp
                /\ proc'[p].pc = "co_cart" /\ proc'[p].user_id = u
                /\ Tables' = Tables
                /\ seq' = seq
                /\ notified' = notified]_vars
    /\ [][\A p \in Procs, u \in Users :
             (proc[p] = Idle /\ CreateOrderBeginFail(p, u)) =>
                /\ resp' = Response("CreateOrder", 500, 0)
                /\ proc'[p] = Idle
                /\ Tables' = Tables
                /\ seq' = seq
                /\ notified' = notified]_vars
    /\ [][\A p \in Procs :
             (proc[p].pc = "co_cart" /\ CreateOrderFail(p)) =>
                /\ resp' = Response("CreateOrder", 500, 0)
                /\ proc'[p] = Idle
                /\ Tables' = Tables
                /\ seq' = seq
                /\ notified' = notified]_vars

\* the 400 answer was given while another customer had lines in the cart
C3_Witness ==
    /\ resp = Response("CreateOrder", 400, 0)
    /\ \E u \in Users : UserLines(cart_items, u) = {}
    /\ cart_items # {}
    /\ orders = {}

CommitOf(p) == proc[p].pc = "co_commit" /\ CreateOrderCommit(p)

\* C4 as claimed: when a checkout commits, the cart of its customer holds no line.
C4_CartEmptyAtCommit ==
    [][\A p \in Procs :
         CommitOf(p) => UserLines(cart_items', proc[p].user_id) = {}]_vars

\* C4 amended: when a checkout commits, no cart line that its customer had when
\* the checkout's DELETE ran is left; what the cart then holds was inserted after
\* that DELETE, and lines of other customers are untouched.
C4_CartLinesAtCommitAreNewer ==
    [][\A p \in Procs :
         CommitOf(p) =>
            /\ \A r \in UserLines(cart_items', proc[p].user_id) : r.id \notin proc[p].seen
            /\ \A u \in Users \ {proc[p].user_id} :
                  UserLines(cart_items', u) = UserLines(cart_items, u)]_vars

\* a checkout committed and left in the cart a line added while it ran
C4_Witness ==
    /\ resp.handler = "CreateOrder" /\ resp.code = 201
    /\ \E o \in orders :
          /\ o.id = resp.id
          /\ UserLines(cart_items, o.user_id) # {}
\* whole days from check-in to check-out, at least 1
StayNights(checkIn, checkOut) ==
    IF checkOut - checkIn < 1 THEN 1 ELSE checkOut - checkIn

HasStay(row) == ~IsNull(row.check_in_date) /\ ~IsNull(row.check_out_date)

\* C5: every stored order line of kind room with both check-in and check-out
\* carries nights = max(1, days from check-in to check-out) and the total
\* unit price * nights * quantity (2025-06-01 to 2025-06-04 is 3 nights); every
\* other line carries no nights and the total unit price * quantity.
C5_LineTotalByNights ==
    \A i \in order_items :
        /\ i.unit_price = UnitPrice(i.item_type, i.item_id)
        /\ IF i.item_type = "room" /\ HasStay(i)
           THEN LET n == StayNights(Val(i.check_in_date), Val(i.check_out_date))
                IN  /\ i.nights = Some(n)
                    /\ i.total_price = i.unit_price * n * i.quantity
           ELSE /\ i.nights = Null
                /\ i.total_price = i.unit_price * i.quantity

\* the bookings among bs that repeat the room, order and stay of order line l,
\* with its quantity as guest count, and are confirmed
BookingsFor(l, bs) ==
    { b \in bs : /\ b.room_id = l.item_id
                 /\ b.order_id = l.order_id
                 /\ b.check_in_date = l.check_in_date
                 /\ b.check_out_date = l.check_out_date
                 /\ b.guest_count = l.quantity
                 /\ b.status = "confirmed" }

\* C6 as claimed: a successful checkout creates, for each room order line it
\* creates, exactly one booking with the line's room, order, check-in and
\* check-out, guest_count equal to the line's quantity, and status confirmed.
C6_OneBookingPerRoomLine ==
    [][\A p \in Procs :
         CommitOf(p) =>
            \A l \in order_items' \ order_items :
                l.item_type = "room" =>
                   Cardinality(BookingsFor(l, room_bookings' \ room_bookings)) = 1]_vars

\* C6 amended: a successful checkout creates exactly one such booking for each
\* room order line that has both check-in and check-out, no booking for a room
\* line lacking a date, and no other booking.
C6_OneBookingPerDatedRoomLine ==
    [][\A p \in Procs :
         CommitOf(p) =>
            LET lines == order_items' \ order_items
                bookings == room_bookings' \ room_bookings
                dated == {l \in lines : l.item_type = "room" /\ HasStay(l)}
            IN  /\ \A l \in dated : Cardinality(BookingsFor(l, bookings)) = 1
                /\ \A l \in lines \ dated :
                      \A b \in bookings : b.order_id = l.order_id =>
                         ~(b.room_id = l.item_id /\ b.check_in_date = l.check_in_date
                             /\ b.check_out_date = l.check_out_date)
                /\ bookings = UNION {BookingsFor(l, bookings) : l \in dated}
                /\ room_bookings \subseteq room_bookings']_vars

\* an order holds a dated room line of quantity 2 with its booking of 2 guests,
\* and another order holds a room line without check-out and has no booking
C6_Witness ==
    /\ \E l \in order_items :
          /\ l.item_type = "room" /\ HasStay(l) /\ l.quantity = 2
          /\ \E b \in room_bookings : b.order_id = l.order_id /\ b.guest_count = 2
    /\ \E l \in order_items :
          /\ l.item_type = "room" /\ ~HasStay(l)
          /\ \A b \in room_bookings : b.order_id # l.order_id

\* the order lines a booking stands for: room lines of its order with its room
\* and its check-in and check-out
LinesBooked(b) ==
    { l \in order_items : /\ l.item_type = "room"
                          /\ l.order_id = b.order_id
                          /\ l.item_id = b.room_id
                          /\ l.check_in_date = b.check_in_date
                          /\ l.check_out_date = b.check_out_date }

\* C7: in every reachable state every booking belongs to a stored order and
\* stands for exactly one order line, a room line of that order with the same
\* room, check-in and check-out; two bookings never stand for the same line, so
\* none is left for a product line.
C7_BookingHasOneRoomLine ==
    /\ \A b \in room_bookings :
          /\ \E o \in orders : o.id = b.order_id
          /\ ~IsNull(b.check_in_date) /\ ~IsNull(b.check_out_date)
          /\ Cardinality(LinesBooked(b)) = 1
    /\ \A b, c \in room_bookings : b.id # c.id => LinesBooked(b) \cap LinesBooked(c) = {}

\* a cancelled booking stands beside a product line and a room line of its order
C7_Witness ==
    \E b \in room_bookings :
        /\ b.status = "cancelled"
        /\ \E l \in LinesOf(order_items, b.order_id) : l.item_type = "product"
        /\ \E l \in LinesOf(order_items, b.order_id) : l.item_type = "room"
\* the key of a cart line: customer, kind, item and stay range, an absent date
\* being a value like any other
SameKey(r, s) ==
    /\ r.user_id = s.user_id /\ r.item_type = s.item_type /\ r.item_id = s.item_id
    /\ r.check_in_date = s.check_in_date /\ r.check_out_date = s.check_out_date

\* C8: in every reachable state, whatever the interleaving of AddToCart
\* requests, no two cart lines have the same customer, kind, item and stay
\* range, two absent stay ranges being the same.
C8_OneLinePerKey ==
    \A r, s \in cart_items : SameKey(r, s) => r.id = s.id

\* request p of a customer stands before its insert or update, and the check
\* query would answer now what it answered the request: no other request has
\* come in between
AsChecked(p) ==
    /\ proc[p].pc \in {"add_insert", "add_update"}
    /\ proc[p].request.user_id \in Users
    /\ LET found == CheckQuery(cart_items, proc[p].request)
       IN  IF proc[p].pc = "add_insert" THEN found = {}
           ELSE \E r \in found : r.id = proc[p].existingID

\* the insert or the update of request p
AddToCartWrite(p) == AddToCartInsert(p) \/ AddToCartUpdate(p)

\* C9: an AddToCart, run with no other request in between, that finds no cart
\* line with its key leaves exactly one, with the request's quantity, and
\* answers 201 with its id; one that finds one line with its key leaves that
\* line alone under the key, its quantity raised by the request's, and answers
\* 200 with the same id.  Two calls in a row with one key thus leave one line
\* of quantity q1 + q2.
C9_TwoAddsOneLine ==
    [][\A p \in Procs :
         (AsChecked(p) /\ AddToCartWrite(p)) =>
            LET request == proc[p].request
                before == {r \in cart_items : SameKey(r, request)}
                after == {r \in cart_items' : SameKey(r, request)}
            IN  /\ before = {} =>
                      /\ Cardinality(after) = 1
                      /\ \A r \in after :
                            /\ r.quantity = request.quantity
                            /\ resp' = Response("AddToCart", 201, r.id)
                /\ Cardinality(before) = 1 =>
                      /\ Cardinality(after) = 1
                      /\ \A r \in before : \A t \in after :
                            /\ t.id = r.id
                            /\ t.quantity = r.quantity + request.quantity
                            /\ resp' = Response("AddToCart", 200, r.id)]_vars

\* C10: an AddToCart changes the quantity of a cart line only if that line has
\* the request's key; when no line has the request's key it inserts a new line
\* with that key and leaves every existing line as it was.
C10_IncrementOnlyOnSameKey ==
    [][\A p \in Procs :
         (AsChecked(p) /\ AddToCartWrite(p)) =>
            LET request == proc[p].request
            IN  /\ \A r \in cart_items : \A t \in cart_items' :
                      (t.id = r.id /\ t.quantity # r.quantity) => SameKey(r, request)
                /\ (\A r \in cart_items : ~SameKey(r, request)) =>
                      /\ cart_items \subseteq cart_items'
                      /\ \E t \in cart_items' \ cart_items :
                            /\ SameKey(t, request) /\ t.quantity = request.quantity
                            /\ cart_items' = cart_items \cup {t}]_vars

\* C11: in every reachable state every cart line has a quantity of at least 1,
\* whatever non-zero quantities the AddToCart requests carried and however an
\* existing line was incremented.
C11_QuantityAtLeastOne ==
    \A r \in cart_items : r.quantity >= 1

\* the item is a room marked available or a product marked active
OnOffer(item_type, item_id) ==
    \/ item_type = "room" /\ \E r \in rooms : r.id = item_id /\ r.is_available
    \/ item_type = "product" /\ \E p \in products : p.id = item_id /\ p.is_active

\* C12: an AddToCart for a kind other than room or product answers 400, one for
\* an item that does not exist or is not available / not active answers 404, and
\* neither inserts a cart line or changes a quantity; so no cart line ever
\* refers to such an item.  An AddToCart whose EXISTS query returns an error
\* answers 404 too and changes no cart line.
C12_RefusedAddChangesNothing ==
    /\ [](\A r \in cart_items : OnOffer(r.item_type, r.item_id))
    /\ [][\A p \in Procs, u \in Users, s \in RefusedSelections \cup RetiredSelections,
             q \in Quantities :
             (proc[p] = Idle /\ AddToCartExists(p, u, s, q)) =>
                /\ resp' = Response("AddToCart",
                                    IF s.item_type \in {"room", "product"} THEN 404 ELSE 400, 0)
                /\ proc'[p] = Idle
                /\ cart_items' = cart_items]_vars
    /\ [][\A p \in Procs, s \in RetiredSelections \cup SeqSelections :
             (proc[p] = Idle /\ AddToCartExistsFail(p, 1, s, 1)) =>
                /\ resp' = Response("AddToCart", 404, 0)
                /\ proc'[p] = Idle
                /\ cart_items' = cart_items]_vars

\* an AddToCart was answered 404 while the cart held lines and a room and a
\* product were off the offer
C12_Witness ==
    /\ resp = Response("AddToCart", 404, 0)
    /\ cart_items # {}
    /\ \E r \in rooms : ~r.is_available
    /\ \E p \in products : ~p.is_active

\* C13: RemoveFromCart deletes the line with the given id when it belongs to the
\* customer, and only that line, answering 200; when no line has the id or the
\* line belongs to another customer it answers 404 and the cart lines of every
\* customer stay as they were.
C13_RemoveOnlyOwnLine ==
    [][\A u \in Users, id \in 1..MaxCartId :
         (resp'.handler = "RemoveFromCart" /\ RemoveFromCart(u, id)) =>
            IF \E r \in cart_items : r.id = id /\ r.user_id = u
            THEN /\ cart_items' = {r \in cart_items : r.id # id}
                 /\ resp' = Response("RemoveFromCart", 200, 0)
            ELSE /\ cart_items' = cart_items
                 /\ resp' = Response("RemoveFromCart", 404, 0)]_vars

\* a removal was answered 404 while both customers had lines: for every id in
\* range the request named a line of the other customer or no line at all
C13_Witness ==
    /\ resp = Response("RemoveFromCart", 404, 0)
    /\ \A u \in Users : UserLines(cart_items, u) # {}

\* C14: ClearCart removes every cart line of the customer and no other line and
\* answers 200, also when the customer's cart is empty; applied again to the
\* state it leaves, it leaves the same state and gives the same answer.  A
\* ClearCart that had to wait for a checkout has, when it answers 200, left
\* none of the lines the customer had when it started, and removed no other.
C14_ClearIsIdempotent ==
    /\ [][\A u \in Users :
             (resp'.handler = "ClearCart" /\ ClearCart(u)) =>
                /\ cart_items' = {r \in cart_items : r.user_id # u}
                /\ resp' = Response("ClearCart", 200, 0)
                /\ {r \in cart_items' : r.user_id # u} = cart_items'
                /\ (UserLines(cart_items, u) = {} => cart_items' = cart_items)
                /\ <<orders, order_items, room_bookings, seq, notified>>'
                      = <<orders, order_items, room_bookings, seq, notified>>]_vars
    /\ [][\A c \in clearing :
             (clearing' # clearing /\ ClearCartResume(c)) =>
                /\ \A r \in cart_items' : r.id \notin c.snapshot
                /\ cart_items' \subseteq cart_items
                /\ \A r \in cart_items \ cart_items' :
                      r.user_id = c.user_id /\ r.id \in c.snapshot
                /\ resp' = Response("ClearCart", 200, 0)
                /\ <<orders, order_items, room_bookings, seq, notified>>'
                      = <<orders, order_items, room_bookings, seq, notified>>]_vars

\* a cart was cleared while the other customer kept lines
C14_Witness ==
    /\ resp = Response("ClearCart", 200, 0)
    /\ \E u \in Users : UserLines(cart_items, u) = {}
    /\ cart_items # {}
    /\ seq.cart_items = MaxCartId

\* C15: CheckRoomAvailability answers available = true exactly when no booking
\* of the room in status confirmed or checked_in has a range [c,d) with a < d
\* and c < b, for every requested range [a,b) and every stored booking,
\* bookings with check-in equal to or after check-out and requests with a >= b
\* included.
C15_AvailableIffNoOverlap ==
    [][\A room \in RoomIds, a, b \in BookingDays :
         CheckRoomAvailability(room, a, b) =>
            (resp'.available <=>
               ~\E bk \in room_bookings :
                   /\ bk.room_id = room
                   /\ bk.status \in {"confirmed", "checked_in"}
                   /\ a < Val(bk.check_out_date)
                   /\ Val(bk.check_in_date) < b)]_vars

BookingsOf(rows, orderID) == {b \in rows : b.order_id = orderID}

\* C16: when UpdateOrderStatus(order, cancelled) answers 200, every booking of
\* the order is cancelled and the bookings of other orders are as before; on an
\* order whose bookings are cancelled already it changes no booking.
C16_CancelCancelsBookings ==
    [][\A p \in Procs :
         (proc[p].pc = "us_cascade" /\ UpdateOrderStatusCascade(p)) =>
            LET id == proc[p].orderID
            IN  /\ resp' = Response("UpdateOrderStatus", 200, id)
                /\ \A b \in BookingsOf(room_bookings', id) : b.status = "cancelled"
                /\ room_bookings' \ BookingsOf(room_bookings', id)
                      = room_bookings \ BookingsOf(room_bookings, id)
                /\ (\A b \in BookingsOf(room_bookings, id) : b.status = "cancelled")
                      => room_bookings' = room_bookings]_vars

\* C17: in every reachable state an order with status cancelled has no booking
\* in a status other than cancelled.
C17_CancelledOrderHasNoLiveBooking ==
    \A o \in orders :
        o.status = "cancelled" =>
           \A b \in BookingsOf(room_bookings, o.id) : b.status = "cancelled"

\* C18: UpdateOrderStatus answers 400 to a status other than pending, confirmed,
\* cancelled and completed and 404 to an unknown order id, changing no order and
\* no booking; every stored order has one of those four statuses.
C18_OnlyFourStatuses ==
    /\ [](\A o \in orders :
             o.status \in {"pending", "confirmed", "cancelled", "completed"})
    /\ [][\A p \in Procs, id \in 1..MaxOrderId,
             s \in {"cancelled", "confirmed"} \cup BadOrderStatuses :
             (resp'.handler = "UpdateOrderStatus" /\ UpdateOrderStatusExec(p, id, s)) =>
                IF s \notin {"pending", "confirmed", "cancelled", "completed"}
                THEN /\ resp' = Response("UpdateOrderStatus", 400, 0)
                     /\ orders' = orders /\ room_bookings' = room_bookings
                ELSE IF \A o \in orders : o.id # id
                THEN /\ resp' = Response("UpdateOrderStatus", 404, 0)
                     /\ orders' = orders /\ room_bookings' = room_bookings
                ELSE \E o \in orders' : o.id = id /\ o.status = s]_vars

\* a status outside the four was refused while an order stood confirmed
C18_Witness ==
    /\ resp = Response("UpdateOrderStatus", 400, 0)
    /\ \E o \in orders : o.status = "confirmed"
    /\ \E o \in orders : o.status = "pending"

\* the orders written so far: committed, or inserted by a running transaction
OrdersWritten == orders \cup UNION {Written(p, "orders") : p \in Procs}

\* C19: two checkouts of different customers never hold the same order number,
\* whether they ran one after the other or run at the same time in the same
\* second; and when the insert of an order fails on its order number, the
\* number is that of an order of the same customer.
C19_OrderNumbersDifferAcrossCustomers ==
    /\ [](\A o1, o2 \in OrdersWritten :
             o1.user_id # o2.user_id => o1.order_number # o2.order_number)
    /\ [](\A p, q \in Procs :
             (/\ proc[p].pc = "co_order_wait" /\ HasOrder(q)
              /\ proc[q].order.order_number = proc[p].order.order_number) =>
                proc[q].order.user_id = proc[p].user_id)
    /\ [][\A p \in Procs :
             (proc[p].pc = "co_order" /\ proc'[p] = Idle /\ CreateOrderInsertOrder(p)) =>
                \E o \in orders :
                    /\ o.order_number = proc[p].order_number
                    /\ o.user_id = proc[p].user_id]_vars
    /\ [][\A p \in Procs :
             (/\ proc[p].pc = "co_order_wait" /\ proc'[p] = Idle
              /\ CreateOrderInsertOrderResume(p)) =>
                \E o \in orders :
                    /\ o.order_number = proc[p].order.order_number
                    /\ o.user_id = proc[p].user_id]_vars

\* two checkouts of different customers have inserted their orders in the same
\* second and both are still running
C19_Witness ==
    /\ \A p \in Procs : HasOrder(p)
    /\ proc["r1"].order.user_id # proc["r2"].order.user_id
    /\ proc["r1"].order.order_number[2] = proc["r2"].order.order_number[2]

\* C20: a notification is started only by the commit of its order, in the step
\* that answers 201 with the order's id, so none exists for a checkout that
\* failed or was rolled back; and no step of a notification, whether its call
\* succeeds, fails or never returns, changes the answer given or any table.
C20_NotifyOnlyAfterCommit ==
    /\ [](/\ notified \subseteq {o.id : o \in orders}
          /\ DOMAIN mail \subseteq notified)
    /\ [][notified' # notified =>
             \E p \in Procs :
                 /\ proc[p].pc = "co_commit" /\ proc'[p] = Idle
                 /\ proc[p].order \in orders'
                 /\ notified' = notified \cup {proc[p].order.id}
                 /\ resp' = Response("CreateOrder", 201, proc[p].order.id)]_vars
    /\ [][mail' # mail =>
             /\ resp' = resp
             /\ Tables' = Tables
             /\ notified' = notified]_vars

\* the notification of a committed order never returned, and a later checkout
\* failed after it had inserted its order
C20_Witness ==
    /\ \E id \in DOMAIN mail : mail[id].pc = "hung"
    /\ resp = Response("CreateOrder", 500, 0)
    /\ seq.orders > Cardinality(orders)
    /\ Cardinality(notified) = Cardinality(orders)

\* the posts made so far for order id to the given path
PostsTo(id, path) == {k \in 1..Len(mail[id].posts) : mail[id].posts[k].path = path}

\* C21: for each committed order there is at most one post of the admin
\* notification and at most one of the customer confirmation, none of the
\* latter when no customer email was given; an attempt that failed is not made
\* again, and no attempt changes an order, a booking or a cart line.
C21_AtMostOneAttemptEach ==
    /\ [](\A id \in DOMAIN mail :
             /\ id \in {o.id : o \in orders}
             /\ Cardinality(PostsTo(id, "/send-admin-notification")) <= 1
             /\ Cardinality(PostsTo(id, "/send-order-confirmation")) <= 1
             /\ (mail[id].pc = "done" =>
                   Cardinality(PostsTo(id, "/send-admin-notification")) = 1))
    /\ [][\A id \in 1..MaxOrderId, out \in PostOutcomes :
             (mail' # mail /\ NotifyCustomer(id, "", out)) => mail'[id].posts = <<>>]_vars
    /\ [][mail' # mail => Tables' = Tables]_vars

\* the confirmation of an order failed and its admin notification was then
\* posted, once each
C21_Witness ==
    \E id \in DOMAIN mail :
        /\ mail[id].pc = "done"
        /\ Len(mail[id].posts) = 2
        /\ mail[id].posts[1].outcome = "error"

\* two bookings of one room whose stays share a night
Overlap(b, c) ==
    /\ b.room_id = c.room_id
    /\ Val(b.check_in_date) < Val(c.check_out_date)
    /\ Val(c.check_in_date) < Val(b.check_out_date)

\* C22: a checkout writes the bookings of its room lines without waiting and
\* without looking at the bookings there are: every dated room line goes on to
\* its booking insert, the insert is never held up and always adds the booking,
\* and the commit stores the bookings as confirmed, so overlapping confirmed
\* bookings of one room can result.
C22_CheckoutBooksUnchecked ==
    /\ [](\A p \in Procs :
             proc[p].pc = "co_booking" =>
                ENABLED (CreateOrderInsertBooking(p) /\ proc'[p].pc # "idle"))
    /\ [][\A p \in Procs :
             (proc[p].pc = "co_item" /\ CreateOrderInsertItem(p)) =>
                (IsBooked(proc[p].orderItems[proc[p].k]) <=> proc'[p].pc = "co_booking")]_vars
    /\ [][\A p \in Procs :
             (proc[p].pc = "co_booking" /\ CreateOrderInsertBooking(p)) =>
                /\ proc'[p].pc \in {"co_item", "co_clear"}
                /\ Cardinality(proc'[p].bookings) = Cardinality(proc[p].bookings) + 1]_vars
    /\ [][\A p \in Procs :
             CommitOf(p) =>
                /\ proc[p].bookings \subseteq room_bookings'
                /\ \A b \in proc[p].bookings : b.status = "confirmed"]_vars

\* two customers hold confirmed bookings of room 1 for the same nights
C22_Witness ==
    \E b, c \in room_bookings :
        /\ b.id # c.id /\ Overlap(b, c)
        /\ b.status = "confirmed" /\ c.status = "confirmed"
        /\ \E o1, o2 \in orders :
              o1.id = b.order_id /\ o2.id = c.order_id /\ o1.user_id # o2.user_id

\* the order item read by the checkout is the cart line as GET /api/cart shows it
ShownAs(item, c) ==
    /\ item.ItemType = c.item_type /\ item.ItemID = c.item_id
    /\ item.Quantity = c.quantity
    /\ item.UnitPrice = c.unit_price /\ item.TotalPrice = c.total_price

\* C23: the total GET /api/cart shows is the sum of the totals of the lines it
\* shows; a checkout that reads the same cart prices every line as the cart
\* view does and arrives at the same total, which is the total of the order it
\* inserts: both handlers price a line by the same rule.
C23_CartTotalIsOrderTotal ==
    /\ [](resp.handler = "GetCartItems" =>
             resp.total_amount = SumTotalPrice(Range(resp.cart_items)))
    /\ [][\A p \in Procs :
             (proc[p].pc = "co_cart" /\ proc'[p].pc = "co_number"
                /\ CreateOrderReadCart(p)) =>
                LET view == CartView(cart_items, proc[p].user_id, dateLayout)
                    read == proc'[p].orderItems
                IN  /\ proc'[p].totalAmount = view.total_amount
                    /\ Len(read) = view.item_count
                    /\ \E f \in Orderings(1..Len(read)) :
                          \A k \in 1..Len(read) : ShownAs(read[k], view.cart_items[f[k]])]_vars
    /\ [][\A p \in Procs :
             (proc[p].pc = "co_order" /\ proc'[p].pc = "co_item"
                /\ CreateOrderInsertOrder(p)) =>
                proc'[p].order.total_amount = proc[p].totalAmount]_vars
    /\ [][\A p \in Procs :
             CommitOf(p) =>
                \E o \in orders' :
                    /\ o.id = resp'.id
                    /\ o.total_amount = SumTotalPrice(LinesOf(order_items', o.id))]_vars

\* an order of a room line of quantity 2 priced for three nights and a product line
C23_Witness ==
    /\ resp = Response("CreateOrder", 201, resp.id)
    /\ \E i, j \in LinesOf(order_items, resp.id) :
          /\ i.item_type = "room" /\ i.quantity = 2 /\ i.nights = Some(3)
          /\ j.item_type = "product"

\* the products priced 10.00
TenProducts == {x.id : x \in {y \in products : y.price = 1000}}

\* the lines of the scenario: room 7 for [2025-07-01, 2025-07-03) once, a
\* product of 10.00 twice
ScenarioCart(rows) ==
    /\ Cardinality(rows) = 2
    /\ \E r \in rows :
          /\ r.item_type = "room" /\ r.item_id = 7 /\ r.quantity = 1
          /\ r.check_in_date = Some(JulyFirst) /\ r.check_out_date = Some(JulyThird)
    /\ \E r \in rows :
          r.item_type = "product" /\ r.item_id \in TenProducts /\ r.quantity = 2

\* C24: a checkout of the scenario's cart stores an order whose total is the
\* rate of room 7 for two nights plus 20.00, with two order lines and one
\* booking, of room 7 for [2025-07-01, 2025-07-03).
C24_ScenarioOrder ==
    [][\A p \in Procs :
         (CommitOf(p) /\ ScenarioCart(proc[p].items)) =>
            /\ resp'.code = 201
            /\ LET order == CHOOSE o \in orders' : o.id = resp'.id
                   bookings == BookingsOf(room_bookings', order.id)
               IN  /\ order.total_amount = UnitPrice("room", 7) * 2 + 2000
                   /\ Cardinality(LinesOf(order_items', order.id)) = 2
                   /\ Cardinality(bookings) = 1
                   /\ \A b \in bookings :
                         /\ b.room_id = 7
                         /\ b.check_in_date = Some(JulyFirst)
                         /\ b.check_out_date = Some(JulyThird)]_vars

\* C25: of the checkouts of one customer that read the same cart only one
\* commits: a checkout that commits deletes, as its own, at least as many cart
\* lines as it turned into order lines, so none of them was taken by another
\* checkout (no request of SpecRetry removes a line otherwise).
C25_OneCheckoutPerCart ==
    [][\A p \in Procs :
         CommitOf(p) => Cardinality(proc[p].deleted) >= Cardinality(proc[p].items)]_vars

\* the order line i is the cart line r turned into an order line
OrderedAs(r, i) ==
    /\ i.item_type = r.item_type /\ i.item_id = r.item_id
    /\ i.quantity = r.quantity
    /\ i.check_in_date = r.check_in_date /\ i.check_out_date = r.check_out_date

\* C26: a checkout that commits removes from the cart only lines it turned into
\* order lines: every cart line gone with the commit is an order line of the
\* new order, so a line added while the checkout ran is in the order or still
\* in the cart.
C26_DeletesOnlyOrderedLines ==
    [][\A p \in Procs :
         CommitOf(p) =>
            \A r \in cart_items \ cart_items' :
               \E i \in LinesOf(order_items', proc[p].order.id) : OrderedAs(r, i)]_vars

\* C27: no two stored orders have the same order number; and a checkout whose
\* order number is that of a stored order (same customer, same second) answers
\* 500 and leaves every table and the set of notified orders as they were.
C27_OrderNumbersUnique ==
    /\ [](\A o1, o2 \in orders : o1.id # o2.id => o1.order_number # o2.order_number)
    /\ [][\A p \in Procs :
             (/\ proc[p].pc = "co_order"
              /\ \E o \in orders : o.order_number = proc[p].order_number
              /\ CreateOrderInsertOrder(p)) =>
                /\ resp' = Response("CreateOrder", 500, 0)
                /\ proc'[p] = Idle
                /\ Tables' = Tables
                /\ notified' = notified]_vars
    /\ [][\A p \in Procs :
             (/\ proc[p].pc = "co_order_wait"
              /\ \E o \in orders : o.order_number = proc[p].order.order_number
              /\ CreateOrderInsertOrderResume(p)) =>
                /\ resp' = Response("CreateOrder", 500, 0)
                /\ proc'[p] = Idle
                /\ Tables' = Tables
                /\ notified' = notified]_vars

\* the second checkout of a customer within one second was refused: the order
\* of the first is stored, the cart of the second is still there
C27_Witness ==
    /\ resp = Response("CreateOrder", 500, 0)
    /\ \A p \in Procs : proc[p] = Idle
    /\ \E o \in orders :
          /\ o.order_number = OrderNumber(now, o.user_id)
          /\ UserLines(cart_items, o.user_id) # {}
          /\ Cardinality({x \in orders : x.user_id = o.user_id}) = 1
          /\ seq.orders = MaxOrderId

\* the cart lines and the orders of the customers other than u
OthersLines(rows, u) == {r \in rows : r.user_id # u}

\* C28: no statement of a cart request of customer u (the insert or update of
\* an add, a remove, a clear whether or not it had to wait for a checkout, the
\* commit of a checkout with its cart delete) changes a cart line or an order
\* of another customer; GET /api/cart of u shows exactly the cart lines of u;
\* the query of GET /api/orders of u finds exactly the orders of u, and the 200
\* answer shows these orders, each with its own order lines or, when the query
\* for its lines returned an error, with none.
C28_CustomersAreIsolated ==
    /\ [][\A p \in Procs :
             (proc[p].pc \in {"add_insert", "add_update"} /\ AddToCartWrite(p)) =>
                OthersLines(cart_items', proc[p].request.user_id)
                   = OthersLines(cart_items, proc[p].request.user_id)]_vars
    /\ [][\A u \in Users :
             (/\ proc' = proc
              /\ resp'.handler \in {"RemoveFromCart", "ClearCart"}
              /\ \/ \E id \in 1..MaxCartId : RemoveFromCart(u, id)
                 \/ ClearCart(u)) =>
                OthersLines(cart_items', u) = OthersLines(cart_items, u)]_vars
    /\ [][\A c \in clearing :
             (clearing' # clearing /\ ClearCartResume(c)) =>
                OthersLines(cart_items', c.user_id) = OthersLines(cart_items, c.user_id)]_vars
    /\ [][\A p \in Procs :
             CommitOf(p) =>
                /\ OthersLines(cart_items', proc[p].user_id)
                      = OthersLines(cart_items, proc[p].user_id)
                /\ OthersLines(orders', proc[p].user_id)
                      = OthersLines(orders, proc[p].user_id)]_vars
    /\ [][\A u \in Users :
             (proc' = proc /\ resp'.handler = "GetCartItems" /\ GetCartItems(u)) =>
                {c.id : c \in Range(resp'.cart_items)}
                   = {r.id : r \in UserLines(cart_items, u)}]_vars
    /\ [][\A p \in Procs, u \in Users :
             (proc[p] = Idle /\ GetOrders(p, u)) =>
                IF UserLines(orders, u) = {}
                THEN resp' = OrdersView(<<>>) /\ proc'[p] = Idle
                ELSE /\ proc'[p].user_id = u
                     /\ {o.id : o \in Range(proc'[p].rows)}
                           = {o.id : o \in UserLines(orders, u)}]_vars
    /\ [][\A p \in Procs :
             (proc[p].pc = "go_items" /\ (GetOrdersItems(p) \/ GetOrdersItemsDropped(p))) =>
                LET shown == IF proc'[p] = Idle THEN resp'.orders ELSE proc'[p].orders
                    k == Len(proc[p].orders) + 1
                IN  /\ Len(shown) = k
                    /\ \A j \in 1..(k - 1) : shown[j] = proc[p].orders[j]
                    /\ shown[k].id = proc[p].rows[k].id
                    /\ \E o \in UserLines(orders, proc[p].user_id) : o.id = shown[k].id
                    /\ \/ shown[k].Items = <<>>
                       \/ {i.id : i \in Range(shown[k].Items)}
                             = {i.id : i \in LinesOf(order_items, shown[k].id)}
                    /\ proc'[p] = Idle <=> k = Len(proc[p].rows)]_vars

\* customer 1 listed the orders and got one, shown with its lines, while customer 2
\* has an order too
C28_Witness ==
    /\ resp.handler = "GetOrders" /\ resp.code = 200 /\ resp.count = 1
    /\ resp.orders[1].Items # <<>>
    /\ \E o \in orders : o.user_id = 1 /\ resp.orders[1].id = o.id
    /\ \E o \in orders : o.user_id = 2

\* C29: an order whose status is pending, confirmed or completed has no
\* cancelled booking, also when it was cancelled before and then confirmed.
C29_LiveOrderHasNoCancelledBooking ==
    \A o \in orders :
        o.status \in {"pending", "confirmed", "completed"} =>
            \A b \in BookingsOf(room_bookings, o.id) : b.status # "cancelled"

\* the "Login successful" answers given for the OTP record id
LoginsWith(id) == {k \in 1..Len(logins) : logins[k].otp_id = id}

\* C30: for every OTP record at most one verification answers "Login
\* successful", also when verifications run at the same time; and a
\* verification of a code that is unknown for the phone number, or whose latest
\* record is expired, answers 401, logs no one in and creates no user.
C30_OneLoginPerOtp ==
    /\ [](\A o \in otps : Cardinality(LoginsWith(o.id)) <= 1)
    /\ [][\A p \in Procs, ph \in Phones, c \in OtpCodes :
             (/\ resp'.handler = "VerifyOTP"
              /\ \A o \in LatestOtp(otps, ph, c) : now > o.expires_at
              /\ VerifyOTPSelect(p, ph, c)) =>
                /\ resp' = Response("VerifyOTP", 401, 0)
                /\ proc'[p] = Idle
                /\ users' = users
                /\ logins' = logins]_vars
====
